---- MODULE Spec2Model ----
(***************************************************************************)
(* A model of the crossword placement engine (CrosswordEngine,             *)
(* generatePuzzle, attemptPlacement, the validation rules, the retry loop  *)
(* and the shrink-to-fit crop), of the grapheme comparison helpers it      *)
(* uses and of the seeded random source.                                   *)
(*                                                                         *)
(* Coordinates are 0-based as in the code: x is the column, y the row.     *)
(* Indices into grapheme arrays are 0-based in every record that the code  *)
(* builds (Intersection, pairs of findCommonGraphemes); TLA+ sequences are *)
(* 1-based, so clue.graphemes[i + 1] is the code's graphemes[i].           *)
(***************************************************************************)
EXTENDS Integers, Sequences, FiniteSets, TLC

VARIABLES
    clues,          \* generatePuzzle's argument: the ClueItem list
    width,          \* EngineConfig.width
    height,         \* EngineConfig.height
    seed,           \* EngineConfig.seed (NoSeed when omitted)
    now,            \* the wall clock, as last read through Date.now()
    grid,           \* this.grid
    placements,     \* this.placements
    startPositions, \* this.startPositions
    rng,            \* this.rng (the state of the generator)
    wordIdCounter,  \* this.wordIdCounter
    pc,             \* where generatePuzzle stands
    order,          \* attemptPlacement's clues parameter
    idx,            \* attemptPlacement's loop index i (1-based here)
    unplaced,       \* attemptPlacement's unplacedWords
    randomize,      \* attemptPlacement's randomizeTieBreaker
    sortedClues,    \* generatePuzzle's sortedClues
    bestResult,     \* generatePuzzle's bestResult
    attempts,       \* generatePuzzle's attempts
    result,         \* what generatePuzzle returned
    run,            \* 1 in the first call of generateCrossword, 2 in a repeated call
    firstResult,    \* the result of the first call, kept for the comparison
    history,        \* what each attemptPlacement of this call returned, in order
    args,           \* the arguments of a call of applySuitabilityFilter or
                    \* validateManualPlacements
    ret,            \* what that call returned
    calls,          \* the calls the POST /generate-crossword handler has made
                    \* of the services, in order, each with its outcome
    caught          \* the error the handler's try block threw, Null if none

vars == <<clues, width, height, seed, now, grid, placements, startPositions, rng,
          wordIdCounter, pc, order, idx, unplaced, randomize, sortedClues,
          bestResult, attempts, result, run, firstResult, history, args, ret,
          calls, caught>>

-----------------------------------------------------------------------------
(* Bounds of the model.                                                    *)

\* the longest clue list handed to generatePuzzle
MaxClues == 4
\* retryAttempts of the engine configuration (20 in generateCrossword)
MaxRetry == 2
\* the wall clock takes the values 0..MaxClock and never runs backwards
MaxClock == 1

\* Grapheme codes.  1..10 are NFC forms; 10 + g is a canonically equivalent
\* decomposed spelling of g (as "e" + U+0301 is of U+00E9).  The answers of the
\* pool: two short words with a common grapheme, a word in a decomposed
\* spelling, and two four-grapheme words, longer than the narrow grids are
\* wide, one of which shares no grapheme with any other word.
WordPool == { <<1, 2>>, <<3, 1>>, <<11, 3>>, <<4, 4, 4, 4>>, <<3, 3, 1, 2>> }
\* <<width, height>> of the engine configuration
GridSizes == { <<3, 3>>, <<3, 4>>, <<4, 3>> }
Seeds == {1, 2}
NoSeed == -1
Clocks == 0..MaxClock

-----------------------------------------------------------------------------
(* Graphemes.                                                              *)

NoGrapheme == 0

normalizeNFC(g) == IF g > 10 THEN g - 10 ELSE g

\* a comparison that takes any two graphemes for equal
compareGraphemes_AnyTwo(a, b) == normalizeNFC(a) = normalizeNFC(a)

compareGraphemes(a, b) == normalizeNFC(a) = normalizeNFC(b)

\* every pair [i, j] with A[i] and B[j] equal, i ascending then j ascending
findCommonGraphemes(A, B) ==
    LET all == [k \in 1..(Len(A) * Len(B)) |->
                   <<(k - 1) \div Len(B), (k - 1) % Len(B)>>]
    IN SelectSeq(all, LAMBDA p : compareGraphemes(A[p[1] + 1], B[p[2] + 1]))

\* new Set(graphemes): membership is by string identity, not by NFC
GraphemeSet(graphemes) == {graphemes[i] : i \in 1..Len(graphemes)}

\* w.graphemes.some(g => placedGraphemes.has(g))
SharesGrapheme(a, b) == GraphemeSet(a.graphemes) \cap GraphemeSet(b.graphemes) # {}

-----------------------------------------------------------------------------
(* Array.prototype.sort: stable, by a comparator Before(a, b) that says    *)
(* "compare(a, b) < 0".                                                    *)

StableSort(seq, Before(_, _)) ==
    LET n == Len(seq)
        pos == [i \in 1..n |->
                   1 + Cardinality({j \in 1..n :
                           \/ Before(seq[j], seq[i])
                           \/ (~Before(seq[i], seq[j]) /\ j < i)})]
    IN [p \in 1..n |-> seq[CHOOSE i \in 1..n : pos[i] = p]]

-----------------------------------------------------------------------------
(* SeededRandom.  seedrandom() is a library outside the repository: it is  *)
(* modelled as a full-period linear congruential generator whose state and *)
(* output are one number in 0..RngMod-1; next() returns output / RngMod.   *)

RngMod == 16

SeededRandom(s) == s % RngMod

RngStep(s) == (5 * s + 3) % RngMod

RECURSIVE RngAfter(_, _)
\* the generator after k calls of next(); its value is also the k-th output
RngAfter(s, k) == IF k = 0 THEN s ELSE RngAfter(RngStep(s), k - 1)

\* nextInt(min, max) on the output r: floor(r / RngMod * (max - min)) + min
nextInt(r, min, max) == ((r * (max - min)) \div RngMod) + min

RECURSIVE ShuffleFrom(_, _, _)
\* the loop of shuffle() from index i (1-based) down to 2; one next() per step
ShuffleFrom(arr, i, s) ==
    IF i < 2 THEN [array |-> arr, rng |-> s]
    ELSE LET s1 == RngStep(s)
             j == nextInt(s1, 0, i) + 1
             swapped == [arr EXCEPT ![i] = arr[j], ![j] = arr[i]]
         IN ShuffleFrom(swapped, i - 1, s1)

shuffle(arr, s) == ShuffleFrom(arr, Len(arr), s)

-----------------------------------------------------------------------------
(* The grid.                                                               *)

EmptyCell == [grapheme |-> NoGrapheme, wordIds |-> <<>>]
Undefined == [undefined |-> TRUE]

Null == [null |-> TRUE]

EmptyGridOf(w, h) == [c \in (0..(w - 1)) \X (0..(h - 1)) |-> EmptyCell]

createEmptyGrid == EmptyGridOf(width, height)

getCell(x, y) ==
    IF x < 0 \/ y < 0 \/ x >= width \/ y >= height THEN Undefined
    ELSE grid[<<x, y>>]

\* cell?.grapheme as a condition: undefined cell or no grapheme is falsy
HasGrapheme(cell) == cell # Undefined /\ cell.grapheme # NoGrapheme

CellX(startX, direction, i) == IF direction = "ACROSS" THEN startX + i ELSE startX
CellY(startY, direction, i) == IF direction = "DOWN" THEN startY + i ELSE startY

-----------------------------------------------------------------------------
(* Validation.                                                             *)

validateGraphemeArray(graphemes) ==
    /\ \A i \in 1..Len(graphemes) : graphemes[i] # NoGrapheme
    /\ Len(graphemes) > 0

checkBounds(startX, startY, length, direction) ==
    IF startX < 0 \/ startY < 0 THEN FALSE
    ELSE IF direction = "ACROSS"
         THEN startX + length <= width /\ startY < height
         ELSE startY + length <= height /\ startX < width

\* no look at the start records
checkStartCellCollision_Off(startX, startY, direction, firstGrapheme) == TRUE

checkStartCellCollision(startX, startY, direction, firstGrapheme) ==
    \A k \in 1..Len(startPositions) :
        LET pos == startPositions[k]
        IN (pos.x = startX /\ pos.y = startY) =>
               /\ pos.direction # direction
               /\ compareGraphemes(pos.firstGrapheme, firstGrapheme)

\* an occupancy check that lets a word cross a cell of another grapheme
checkCellOccupancy_NoCompare(x, y, grapheme) ==
    LET cell == getCell(x, y)
    IN IF cell = Undefined THEN [allowed |-> FALSE, isIntersection |-> FALSE]
       ELSE [allowed |-> TRUE, isIntersection |-> cell.grapheme # NoGrapheme]

checkCellOccupancy(x, y, grapheme) ==
    LET cell == getCell(x, y)
    IN IF cell = Undefined THEN [allowed |-> FALSE, isIntersection |-> FALSE]
       ELSE IF cell.grapheme = NoGrapheme
            THEN [allowed |-> TRUE, isIntersection |-> FALSE]
            ELSE LET matches == compareGraphemes(cell.grapheme, grapheme)
                 IN [allowed |-> matches, isIntersection |-> matches]

\* no look at the neighbours
checkStrictAdjacency_Off(x, y, direction) == TRUE

checkStrictAdjacency(x, y, direction) ==
    IF direction = "ACROSS"
    THEN ~(HasGrapheme(getCell(x, y - 1)) \/ HasGrapheme(getCell(x, y + 1)))
    ELSE ~(HasGrapheme(getCell(x - 1, y)) \/ HasGrapheme(getCell(x + 1, y)))

checkWordEnds(startX, startY, length, direction) ==
    IF direction = "ACROSS"
    THEN /\ ~HasGrapheme(getCell(startX - 1, startY))
         /\ ~HasGrapheme(getCell(startX + length, startY))
    ELSE /\ ~HasGrapheme(getCell(startX, startY - 1))
         /\ ~HasGrapheme(getCell(startX, startY + length))

validatePlacement(clue, startX, startY, direction) ==
    LET graphemes == clue.graphemes
        length == Len(graphemes)
    IN /\ checkBounds(startX, startY, length, direction)
       /\ length > 0
       /\ checkStartCellCollision(startX, startY, direction, graphemes[1])
       /\ \A i \in 0..(length - 1) :
              LET x == CellX(startX, direction, i)
                  y == CellY(startY, direction, i)
                  occupancyResult == checkCellOccupancy(x, y, graphemes[i + 1])
              IN /\ occupancyResult.allowed
                 /\ (~occupancyResult.isIntersection =>
                         checkStrictAdjacency(x, y, direction))
       /\ checkWordEnds(startX, startY, length, direction)

\* a check that lets no word run DOWN
canPlace_AcrossOnly(clue, x, y, dir) ==
    dir = "ACROSS" /\ validatePlacement(clue, x, y, dir)

canPlace(clue, x, y, dir) == validatePlacement(clue, x, y, dir)

-----------------------------------------------------------------------------
(* commitPlacement.                                                        *)

\* the cells of the grid after the word is written
CommittedGrid(clue, startX, startY, direction, wordId) ==
    [c \in DOMAIN grid |->
        IF \E i \in 0..(Len(clue.graphemes) - 1) :
               c = <<CellX(startX, direction, i), CellY(startY, direction, i)>>
        THEN LET i == CHOOSE i \in 0..(Len(clue.graphemes) - 1) :
                     c = <<CellX(startX, direction, i), CellY(startY, direction, i)>>
             IN [grapheme |-> IF grid[c].grapheme = NoGrapheme
                              THEN clue.graphemes[i + 1]
                              ELSE grid[c].grapheme,
                 wordIds |-> Append(grid[c].wordIds, wordId)]
        ELSE grid[c]]

\* a commit that counts the id up twice
commitPlacement_CountsTwice(clue, startX, startY, direction) ==
    LET wordId == wordIdCounter + 2
    IN /\ wordIdCounter' = wordId
       /\ grid' = CommittedGrid(clue, startX, startY, direction, wordId)
       /\ startPositions' = Append(startPositions,
              [x |-> startX, y |-> startY, direction |-> direction,
               firstGrapheme |-> clue.graphemes[1]])
       /\ placements' = Append(placements,
              [wordId |-> wordId, clueItem |-> clue, startX |-> startX,
               startY |-> startY, direction |-> direction, placed |-> TRUE])

commitPlacement(clue, startX, startY, direction) ==
    LET wordId == wordIdCounter + 1
    IN /\ wordIdCounter' = wordId
       /\ grid' = CommittedGrid(clue, startX, startY, direction, wordId)
       /\ startPositions' = Append(startPositions,
              [x |-> startX, y |-> startY, direction |-> direction,
               firstGrapheme |-> clue.graphemes[1]])
       /\ placements' = Append(placements,
              [wordId |-> wordId, clueItem |-> clue, startX |-> startX,
               startY |-> startY, direction |-> direction, placed |-> TRUE])

-----------------------------------------------------------------------------
(* Ordering of the clues.                                                  *)

\* the count computed for clues[i]: the other clues sharing a grapheme with it
IntersectionCount(items, i) ==
    Cardinality({j \in 1..Len(items) : j # i /\ SharesGrapheme(items[i], items[j])})

\* scores.get(clue.answerText): the map is keyed by the answer text, so the
\* entry of an answer is the one written for its last occurrence in the list
computeIntersectionGraph(items, clue) ==
    LET same == {i \in 1..Len(items) : items[i].graphemes = clue.graphemes}
    IN IF same = {} THEN 0
       ELSE IntersectionCount(items, CHOOSE i \in same : \A k \in same : k <= i)

\* intersection count descending, then grapheme count descending
SortBefore(items, a, b) ==
    LET scoreA == computeIntersectionGraph(items, a)
        scoreB == computeIntersectionGraph(items, b)
    IN IF scoreA # scoreB THEN scoreB < scoreA
       ELSE Len(b.graphemes) < Len(a.graphemes)

\* no sorting: the clues are tried as they were given
sortClues_InputOrder(items) == items

sortClues(items) == StableSort(items, LAMBDA a, b : SortBefore(items, a, b))

-----------------------------------------------------------------------------
(* Placing one word.                                                       *)

\* how many of the remaining words share a grapheme with the clue
LookaheadScore(clue, remainingWords) ==
    Cardinality({k \in 1..Len(remainingWords) : SharesGrapheme(remainingWords[k], clue)})

\* a tie-break that prefers the candidate farthest from the centre
CandidateBefore_Farthest(a, b, randomizeTieBreaker) ==
    IF a.score # b.score THEN b.score < a.score
    ELSE IF randomizeTieBreaker THEN a.randomRank < b.randomRank
         ELSE b.distToCenter < a.distToCenter

\* a tie-break by the random rank in the default attempt as well
CandidateBefore_AlwaysRandom(a, b, randomizeTieBreaker) ==
    IF a.score # b.score THEN b.score < a.score
    ELSE a.randomRank < b.randomRank

\* the comparator of both candidate sorts; a first-word option carries the
\* same distToCenter in both orientations, which makes its last branch "0"
CandidateBefore(a, b, randomizeTieBreaker) ==
    IF a.score # b.score THEN b.score < a.score
    ELSE IF randomizeTieBreaker THEN a.randomRank < b.randomRank
         ELSE a.distToCenter < b.distToCenter

\* the candidates that pass canPlace, each with the next number drawn as its rank
Scored(candidates, clue, remainingWords) ==
    LET valid == SelectSeq(candidates,
                     LAMBDA c : canPlace(clue, c.startX, c.startY, c.direction))
    IN [k \in 1..Len(valid) |->
           [startX |-> valid[k].startX, startY |-> valid[k].startY,
            direction |-> valid[k].direction,
            score |-> LookaheadScore(clue, remainingWords),
            distToCenter |-> valid[k].distToCenter,
            randomRank |-> RngAfter(rng, k)]]

\* a word without a valid candidate is forgotten instead of reported
PlaceBest_ForgetsUnplaced(clue, scored, randomizeTieBreaker) ==
    /\ rng' = RngAfter(rng, Len(scored))
    /\ IF Len(scored) = 0
       THEN UNCHANGED <<unplaced, grid, placements, startPositions, wordIdCounter>>
       ELSE \E best \in {StableSort(scored,
                            LAMBDA a, b : CandidateBefore(a, b, randomizeTieBreaker))[1]} :
                /\ commitPlacement(clue, best.startX, best.startY, best.direction)
                /\ unplaced' = unplaced

\* sort the scored candidates, commit the first; false when there is none
PlaceBest(clue, scored, randomizeTieBreaker) ==
    /\ rng' = RngAfter(rng, Len(scored))
    /\ IF Len(scored) = 0
       THEN /\ unplaced' = Append(unplaced, clue)
            /\ UNCHANGED <<grid, placements, startPositions, wordIdCounter>>
       ELSE \E best \in {StableSort(scored,
                            LAMBDA a, b : CandidateBefore(a, b, randomizeTieBreaker))[1]} :
                /\ commitPlacement(clue, best.startX, best.startY, best.direction)
                /\ unplaced' = unplaced

FirstWordStartX(clue) == (width - Len(clue.graphemes)) \div 2
FirstWordStartY == height \div 2

\* the first word tried DOWN before ACROSS
placeFirstWord_DownFirst(clue, remainingWords, randomizeTieBreaker) ==
    LET candidates ==
            [k \in 1..2 |->
                [startX |-> FirstWordStartX(clue), startY |-> FirstWordStartY,
                 direction |-> <<"DOWN", "ACROSS">>[k], distToCenter |-> 0]]
    IN \E scored \in {Scored(candidates, clue, remainingWords)} :
           PlaceBest(clue, scored, randomizeTieBreaker)

\* the first word tried from the top left corner in both orientations
placeFirstWord_TopLeft(clue, remainingWords, randomizeTieBreaker) ==
    LET candidates ==
            [k \in 1..2 |->
                [startX |-> 0, startY |-> 0,
                 direction |-> <<"ACROSS", "DOWN">>[k], distToCenter |-> 0]]
    IN \E scored \in {Scored(candidates, clue, remainingWords)} :
           PlaceBest(clue, scored, randomizeTieBreaker)

placeFirstWord(clue, remainingWords, randomizeTieBreaker) ==
    LET candidates ==
            [k \in 1..2 |->
                [startX |-> FirstWordStartX(clue), startY |-> FirstWordStartY,
                 direction |-> <<"ACROSS", "DOWN">>[k], distToCenter |-> 0]]
    IN \E scored \in {Scored(candidates, clue, remainingWords)} :
           PlaceBest(clue, scored, randomizeTieBreaker)

\* the intersections of the clue with one placed word
IntersectionsWith(placement, clue) ==
    LET commonPairs == findCommonGraphemes(placement.clueItem.graphemes, clue.graphemes)
    IN [k \in 1..Len(commonPairs) |->
           [gridX |-> CellX(placement.startX, placement.direction, commonPairs[k][1]),
            gridY |-> CellY(placement.startY, placement.direction, commonPairs[k][1]),
            existingGraphemeIndex |-> commonPairs[k][1],
            newGraphemeIndex |-> commonPairs[k][2],
            existingPlacement |-> placement]]

RECURSIVE IntersectionsUpTo(_, _)
IntersectionsUpTo(clue, n) ==
    IF n = 0 THEN <<>>
    ELSE IF ~placements[n].placed THEN IntersectionsUpTo(clue, n - 1)
         ELSE IntersectionsUpTo(clue, n - 1) \o IntersectionsWith(placements[n], clue)

findAllIntersections(clue) == IntersectionsUpTo(clue, Len(placements))

\* |startX + len/2 - width/2| + |startY + len/2 - height/2|, doubled to stay
\* in the integers (the comparison of two distances is unchanged)
Abs(n) == IF n < 0 THEN -n ELSE n
DistToCenter(clue, startX, startY) ==
    Abs(2 * startX + Len(clue.graphemes) - width)
        + Abs(2 * startY + Len(clue.graphemes) - height)

\* a candidate laid along the word it meets instead of across it
CandidateOf_SameDirection(clue, intersection) ==
    LET newDirection == intersection.existingPlacement.direction
        startX == IF newDirection = "ACROSS"
                  THEN intersection.gridX - intersection.newGraphemeIndex
                  ELSE intersection.gridX
        startY == IF newDirection = "ACROSS"
                  THEN intersection.gridY
                  ELSE intersection.gridY - intersection.newGraphemeIndex
    IN [startX |-> startX, startY |-> startY, direction |-> newDirection,
        distToCenter |-> DistToCenter(clue, startX, startY)]

\* a candidate laid two columns and two rows away from the cell it should cross
CandidateOf_Detached(clue, intersection) ==
    LET newDirection ==
            IF intersection.existingPlacement.direction = "ACROSS" THEN "DOWN" ELSE "ACROSS"
        startX == (IF newDirection = "ACROSS"
                   THEN intersection.gridX - intersection.newGraphemeIndex
                   ELSE intersection.gridX) + 2
        startY == (IF newDirection = "ACROSS"
                   THEN intersection.gridY
                   ELSE intersection.gridY - intersection.newGraphemeIndex) - 2
    IN [startX |-> startX, startY |-> startY, direction |-> newDirection,
        distToCenter |-> DistToCenter(clue, startX, startY)]

\* the prospective placement of one intersection
CandidateOf(clue, intersection) ==
    LET newDirection ==
            IF intersection.existingPlacement.direction = "ACROSS" THEN "DOWN" ELSE "ACROSS"
        startX == IF newDirection = "ACROSS"
                  THEN intersection.gridX - intersection.newGraphemeIndex
                  ELSE intersection.gridX
        startY == IF newDirection = "ACROSS"
                  THEN intersection.gridY
                  ELSE intersection.gridY - intersection.newGraphemeIndex
    IN [startX |-> startX, startY |-> startY, direction |-> newDirection,
        distToCenter |-> DistToCenter(clue, startX, startY)]

placeWithIntersection(clue, remainingWords, randomizeTieBreaker) ==
    \E intersections \in {findAllIntersections(clue)} :
        LET candidates ==
                [k \in 1..Len(intersections) |-> CandidateOf(clue, intersections[k])]
        IN \E scored \in {Scored(candidates, clue, remainingWords)} :
               PlaceBest(clue, scored, randomizeTieBreaker)

-----------------------------------------------------------------------------
(* generatePuzzle.                                                         *)

retryAttempts == MaxRetry

NoResult ==
    [grid |-> <<>>, placements |-> <<>>, unplacedWords |-> <<>>,
     gridWidth |-> 0, gridHeight |-> 0, warning |-> Undefined,
     stats |-> [requestedWords |-> 0, placedWords |-> 0, unplacedWords |-> 0,
                fillPlaced |-> 0, fillRequested |-> 0]]

NoAttempt == [placements |-> <<>>, unplacedWords |-> <<>>]

\* a retry loop that asks for 0.8
FillAtLeast60_Asks80(placedCount, requestedWords) ==
    requestedWords > 0 /\ 10 * placedCount >= 8 * requestedWords

\* placed / requested >= 0.6, with "0" for the ratio when nothing was requested
FillAtLeast60(placedCount, requestedWords) ==
    requestedWords > 0 /\ 10 * placedCount >= 6 * requestedWords

\* a warning threshold of 0.6
FillBelow40_Below60(placedCount, requestedWords) ==
    ~(requestedWords > 0 /\ 10 * placedCount >= 6 * requestedWords)

\* placed / requested < 0.4, likewise
FillBelow40(placedCount, requestedWords) ==
    ~(requestedWords > 0 /\ 10 * placedCount >= 4 * requestedWords)

Min(S) == CHOOSE m \in S : \A k \in S : m <= k
Max(S) == CHOOSE m \in S : \A k \in S : m >= k

LastX(p) == CellX(p.startX, p.direction, Len(p.clueItem.graphemes) - 1)
LastY(p) == CellY(p.startY, p.direction, Len(p.clueItem.graphemes) - 1)

\* a box measured on the start cells alone
BoundingBox_StartsOnly(ps) ==
    LET placed == {k \in 1..Len(ps) : ps[k].placed}
    IN IF Len(ps) > 0
       THEN [minX |-> Min({width} \cup {ps[k].startX : k \in placed}),
             minY |-> Min({height} \cup {ps[k].startY : k \in placed}),
             maxX |-> Max({0} \cup {ps[k].startX : k \in placed}),
             maxY |-> Max({0} \cup {ps[k].startY : k \in placed})]
       ELSE [minX |-> 0, minY |-> 0, maxX |-> width - 1, maxY |-> height - 1]

\* a box without the branch for "nothing placed"
BoundingBox_NoEmptyCase(ps) ==
    LET placed == {k \in 1..Len(ps) : ps[k].placed}
    IN [minX |-> Min({width} \cup {ps[k].startX : k \in placed}),
        minY |-> Min({height} \cup {ps[k].startY : k \in placed}),
        maxX |-> Max({0} \cup {LastX(ps[k]) : k \in placed}),
        maxY |-> Max({0} \cup {LastY(ps[k]) : k \in placed})]

\* the bounding box of the placed words, or the whole grid when there is none
BoundingBox(ps) ==
    LET placed == {k \in 1..Len(ps) : ps[k].placed}
    IN IF Len(ps) > 0
       THEN [minX |-> Min({width} \cup {ps[k].startX : k \in placed}),
             minY |-> Min({height} \cup {ps[k].startY : k \in placed}),
             maxX |-> Max({0} \cup {LastX(ps[k]) : k \in placed}),
             maxY |-> Max({0} \cup {LastY(ps[k]) : k \in placed})]
       ELSE [minX |-> 0, minY |-> 0, maxX |-> width - 1, maxY |-> height - 1]

\* a crop that leaves the placements where they were
ShiftPlacements_Unshifted(ps, minX, minY) == ps

\* the shifted placements
ShiftPlacements(ps, minX, minY) ==
    [k \in 1..Len(ps) |->
        [ps[k] EXCEPT !.startX = ps[k].startX - minX, !.startY = ps[k].startY - minY]]

\* the new grid after the shifted placements were written into it, one after
\* the other: each covered cell inside the grid holds the grapheme of the
\* last word written over it and the ids of all of them, in their order
Repopulate(newGrid, ps) ==
    [c \in DOMAIN newGrid |->
        LET covering == SelectSeq([k \in 1..Len(ps) |-> k],
                            LAMBDA k : \E i \in 0..(Len(ps[k].clueItem.graphemes) - 1) :
                                c = <<CellX(ps[k].startX, ps[k].direction, i),
                                      CellY(ps[k].startY, ps[k].direction, i)>>)
        IN IF covering = <<>> THEN newGrid[c]
           ELSE LET p == ps[covering[Len(covering)]]
                IN [grapheme |-> p.clueItem.graphemes[
                                     (c[1] - p.startX) + (c[2] - p.startY) + 1],
                    wordIds |-> newGrid[c].wordIds
                                    \o [k \in 1..Len(covering) |-> ps[covering[k]].wordId]]]

\* Math.round(num / den) for num >= 0 and den > 0
Round(num, den) == (2 * num + den) \div (2 * den)

\* the warning, by the numbers its text is made of:
\* "Grid too constrained: only placed/requested words placed (percent%)."
Warning(placedCount, requestedWords) ==
    IF FillBelow40(placedCount, requestedWords)
    THEN [placed |-> placedCount, requested |-> requestedWords,
          percent |-> IF requestedWords > 0
                      THEN Round(100 * placedCount, requestedWords) ELSE 0]
    ELSE Undefined

\* the final statistics, the warning and the shrink-to-fit crop
ShrinkToFit(best, requestedWords) ==
    LET placedCount == Len(best.placements)
        box == BoundingBox(best.placements)
        newWidth == Max({0, box.maxX - box.minX + 1})
        newHeight == Max({0, box.maxY - box.minY + 1})
        newPlacements == ShiftPlacements(best.placements, box.minX, box.minY)
    IN [grid |-> Repopulate(EmptyGridOf(newWidth, newHeight), newPlacements),
        placements |-> newPlacements,
        unplacedWords |-> best.unplacedWords,
        gridWidth |-> newWidth,
        gridHeight |-> newHeight,
        warning |-> Warning(placedCount, requestedWords),
        stats |-> [requestedWords |-> requestedWords,
                   placedWords |-> placedCount,
                   unplacedWords |-> Len(best.unplacedWords),
                   fillPlaced |-> IF requestedWords > 0 THEN placedCount ELSE 0,
                   fillRequested |-> IF requestedWords > 0 THEN requestedWords ELSE 1]]

-----------------------------------------------------------------------------
(* The state machine.                                                      *)

ClueLists ==
    UNION {{[i \in 1..n |-> [ref |-> i, graphemes |-> ws[i]]] : ws \in [1..n -> WordPool]} :
              n \in 0..MaxClues}

\* new CrosswordEngine({width, height, seed, retryAttempts})
Init ==
    /\ clues = <<>>
    /\ \E size \in GridSizes : width = size[1] /\ height = size[2]
    /\ seed \in Seeds \cup {NoSeed}
    /\ now = 0
    /\ rng = SeededRandom(IF seed = NoSeed THEN now ELSE seed)
    /\ grid = EmptyGridOf(width, height)
    /\ placements = <<>>
    /\ startPositions = <<>>
    /\ wordIdCounter = 0
    /\ pc = "constructed"
    /\ order = <<>>
    /\ idx = 1
    /\ unplaced = <<>>
    /\ randomize = FALSE
    /\ sortedClues = <<>>
    /\ bestResult = NoAttempt
    /\ attempts = 0
    /\ result = NoResult
    /\ run = 1
    /\ firstResult = NoResult
    /\ history = <<>>
    /\ args = Undefined
    /\ ret = Undefined
    /\ calls = <<>>
    /\ caught = Null

config == <<width, height, seed, run, firstResult, args, ret, calls, caught>>
inputs == <<clues, config>>
engine == <<grid, placements, startPositions, wordIdCounter, rng>>

\* generatePuzzle(clues) up to the call of the first attemptPlacement; the
\* second call of a pair is given the clues of the first
GeneratePuzzle ==
    /\ pc = "constructed"
    /\ IF run = 1 THEN clues' \in ClueLists ELSE clues' = clues
    /\ sortedClues' = sortClues(clues')
    /\ order' = sortedClues'
    /\ idx' = 1
    /\ unplaced' = <<>>
    /\ randomize' = FALSE
    /\ pc' = "attempt"
    /\ UNCHANGED <<config, engine, now, bestResult, attempts, result, history>>

\* one iteration of attemptPlacement's loop
AttemptStep ==
    /\ pc = "attempt"
    /\ idx <= Len(order)
    /\ LET clue == order[idx]
           remainingWords == SubSeq(order, idx + 1, Len(order))
       IN IF ~validateGraphemeArray(clue.graphemes)
          THEN /\ unplaced' = Append(unplaced, clue)
               /\ UNCHANGED engine
          ELSE IF Len(placements) = 0
               THEN placeFirstWord(clue, remainingWords, randomize)
               ELSE placeWithIntersection(clue, remainingWords, randomize)
    /\ idx' = idx + 1
    /\ UNCHANGED <<inputs, now, pc, order, randomize, sortedClues, bestResult, history,
                   attempts, result>>

\* a selection that lets a retry with as many words replace the best
KeepBest_LastOfEqual(best, attempt, isRetry) ==
    IF ~isRetry \/ Len(attempt.placements) >= Len(best.placements)
    THEN attempt
    ELSE best

\* bestResult after an attempt: the default attempt, or a retry with more words
KeepBest(best, attempt, isRetry) ==
    IF ~isRetry \/ Len(attempt.placements) > Len(best.placements)
    THEN attempt
    ELSE best

\* attemptPlacement returns; generatePuzzle keeps the attempt with more words.
\* The returned placements and unplacedWords are arrays that reset() replaces
\* and never empties, so the value kept is the value returned.
AttemptReturn ==
    /\ pc = "attempt"
    /\ idx > Len(order)
    /\ LET attempt == [placements |-> placements, unplacedWords |-> unplaced]
       IN /\ bestResult' = KeepBest(bestResult, attempt, randomize)
          /\ history' = Append(history, attempt)
    /\ pc' = "loop"
    /\ UNCHANGED <<inputs, engine, now, order, idx, unplaced, randomize,
                   sortedClues, attempts, result>>

\* the retry loop is entered once more: shuffle, reset with the clock's seed
RetryStart ==
    /\ pc = "loop"
    /\ attempts < retryAttempts
    /\ ~FillAtLeast60(Len(bestResult.placements), Len(clues))
    /\ attempts' = attempts + 1
    /\ \E t \in Clocks :
          /\ t >= now
          /\ now' = t
          /\ rng' = SeededRandom(t + attempts' * 54321)
    /\ order' = shuffle(sortedClues, rng).array
    /\ grid' = createEmptyGrid
    /\ placements' = <<>>
    /\ startPositions' = <<>>
    /\ wordIdCounter' = 0
    /\ idx' = 1
    /\ unplaced' = <<>>
    /\ randomize' = TRUE
    /\ pc' = "attempt"
    /\ UNCHANGED <<inputs, sortedClues, bestResult, result, history>>

\* the retry loop is left: statistics, warning, crop, return
Finish ==
    /\ pc = "loop"
    /\ ~(attempts < retryAttempts /\ ~FillAtLeast60(Len(bestResult.placements), Len(clues)))
    /\ \E shrunk \in {ShrinkToFit(bestResult, Len(clues))} : result' = shrunk
    /\ pc' = "done"
    /\ UNCHANGED <<inputs, engine, now, order, idx, unplaced, randomize,
                   sortedClues, bestResult, attempts, history>>

\* generateCrossword is called again with the same clues, width, height, seed
Rerun ==
    /\ pc = "done"
    /\ run = 1
    /\ run' = 2
    /\ firstResult' = result
    /\ \E t \in Clocks :
          /\ t >= now
          /\ now' = t
          /\ rng' = SeededRandom(IF seed = NoSeed THEN t ELSE seed)
    /\ grid' = createEmptyGrid
    /\ placements' = <<>>
    /\ startPositions' = <<>>
    /\ wordIdCounter' = 0
    /\ pc' = "constructed"
    /\ order' = <<>>
    /\ idx' = 1
    /\ unplaced' = <<>>
    /\ randomize' = FALSE
    /\ sortedClues' = <<>>
    /\ bestResult' = NoAttempt
    /\ attempts' = 0
    /\ result' = NoResult
    /\ history' = <<>>
    /\ UNCHANGED <<clues, width, height, seed, args, ret, calls, caught>>

Next == GeneratePuzzle \/ AttemptStep \/ AttemptReturn \/ RetryStart \/ Finish

Spec == Init /\ [][Next]_vars

\* one call runs to its end: nothing suspends the engine
FairSpec == Spec /\ WF_vars(Next)

NextRerun == Next \/ Rerun

\* two calls of generateCrossword, one after the other, on the same input
SpecRerun == Init /\ [][NextRerun]_vars

\* generateCrossword is called again with the same clues, width and height
\* and another seed (a given one, or none)
Reseed ==
    /\ pc = "done"
    /\ run = 1
    /\ run' = 2
    /\ firstResult' = result
    /\ seed' \in (Seeds \cup {NoSeed}) \ {seed}
    /\ \E t \in Clocks :
          /\ t >= now
          /\ now' = t
          /\ rng' = SeededRandom(IF seed' = NoSeed THEN t ELSE seed')
    /\ grid' = createEmptyGrid
    /\ placements' = <<>>
    /\ startPositions' = <<>>
    /\ wordIdCounter' = 0
    /\ pc' = "constructed"
    /\ order' = <<>>
    /\ idx' = 1
    /\ unplaced' = <<>>
    /\ randomize' = FALSE
    /\ sortedClues' = <<>>
    /\ bestResult' = NoAttempt
    /\ attempts' = 0
    /\ result' = NoResult
    /\ history' = <<>>
    /\ UNCHANGED <<clues, width, height, args, ret, calls, caught>>

NextReseed == Next \/ Reseed

SpecReseed == Init /\ [][NextReseed]_vars

-----------------------------------------------------------------------------
(* The suitability filter, applySuitabilityFilter: a pure function of the  *)
(* word list and the grid size.                                            *)

\* the longest word list handed to the filter
MaxWords == 47
\* the windows of the word universe start among its first MaxSkip + 1 words
MaxSkip == 5

\* The words of the filter's inputs, by position: a short word that shares
\* nothing, a six-grapheme word and a short word that share a grapheme with
\* each other only, a four-grapheme word that shares nothing, a ten-grapheme
\* word, and then short words of three kinds that share graphemes with each
\* other (the third kind in a decomposed spelling).
Universe(i) ==
    IF i = 1 THEN <<9, 10>>
    ELSE IF i = 2 THEN <<7, 8, 8, 8, 8, 8>>
    ELSE IF i = 3 THEN <<7, 6>>
    ELSE IF i = 4 THEN <<5, 4, 5, 4>>
    ELSE IF i = 5 THEN <<7, 8, 8, 8, 8, 8, 8, 8, 8, 8>>
    ELSE IF i % 3 = 0 THEN <<1, 3>>
    ELSE IF i % 3 = 1 THEN <<2, 2>>
    ELSE <<11, 2>>

\* the clue items of the universe from position a to position b
Window(a, b) == [k \in 1..(b - a + 1) |-> [ref |-> a + k - 1, graphemes |-> Universe(a + k - 1)]]

Reverse(seq) == [k \in 1..Len(seq) |-> seq[Len(seq) + 1 - k]]

\* a word list: a window of the universe, as it is or reversed
WordList(a, b, reversed) == IF reversed THEN Reverse(Window(a, b)) ELSE Window(a, b)

\* <<gridWidth, gridHeight>> of the filter's calls: one for each step of the
\* cap, and both sides of the small-grid limit of 11
FilterGridSizes ==
    { <<5, 5>>, <<7, 9>>, <<8, 8>>, <<15, 11>>, <<12, 12>>, <<16, 20>>, <<25, 21>> }

\* a count that takes the word itself for one of the others
computeIntersectionCount_CountsItself(word, allWords, wordIndex) ==
    Cardinality({i \in 1..Len(allWords) :
        Len(findCommonGraphemes(word.graphemes, allWords[i].graphemes)) > 0})

computeIntersectionCount(word, allWords, wordIndex) ==
    Cardinality({i \in 1..Len(allWords) :
        /\ i # wordIndex
        /\ Len(findCommonGraphemes(word.graphemes, allWords[i].graphemes)) > 0})

scoreWords(words) ==
    [k \in 1..Len(words) |->
        [clue |-> words[k],
         intersectionCount |-> computeIntersectionCount(words[k], words, k),
         graphemeLength |-> Len(words[k].graphemes)]]

\* a rule pass whose first rule spares words of up to four graphemes
shouldRemoveWord_LongFiller(scored, gridWidth, gridHeight) ==
    LET gridSize == Min({gridWidth, gridHeight})
    IN \/ scored.intersectionCount = 0 /\ scored.graphemeLength > 4
       \/ gridSize <= 11 /\ scored.graphemeLength > gridSize - 2

shouldRemoveWord(scored, gridWidth, gridHeight) ==
    LET gridSize == Min({gridWidth, gridHeight})
    IN \/ scored.intersectionCount = 0 /\ scored.graphemeLength > 3
       \/ gridSize <= 11 /\ scored.graphemeLength > gridSize - 2

\* a cap that is 12 for every grid of side 10 or less
getMaxRecommendedWords_NoSmallStep(gridSize) ==
    IF gridSize <= 10 THEN 12
    ELSE IF gridSize <= 15 THEN 20
    ELSE IF gridSize <= 20 THEN 30
    ELSE 40

getMaxRecommendedWords(gridSize) ==
    IF gridSize <= 7 THEN 8
    ELSE IF gridSize <= 10 THEN 12
    ELSE IF gridSize <= 15 THEN 20
    ELSE IF gridSize <= 20 THEN 30
    ELSE 40

\* the clues of a list of scored words, the last one lost
CluesOf_LosesLast(scored) == [k \in 1..(Len(scored) - 1) |-> scored[k].clue]

\* the clues of a list of scored words
CluesOf(scored) == [k \in 1..Len(scored) |-> scored[k].clue]

\* the filter's result; rulePassed is not a field of the code's result: it is
\* filteredWords as the rule pass left it, before the cap
applySuitabilityFilter(words, gridWidth, gridHeight) ==
    IF Len(words) = 0
    THEN [filteredWords |-> <<>>, removedWords |-> <<>>, originalCount |-> 0,
          filteredCount |-> 0, wasFiltered |-> FALSE, warning |-> Undefined,
          rulePassed |-> <<>>]
    ELSE
    LET scoredWords == scoreWords(words)
        passed == CluesOf(SelectSeq(scoredWords,
                      LAMBDA sc : ~shouldRemoveWord(sc, gridWidth, gridHeight)))
        removed == CluesOf(SelectSeq(scoredWords,
                      LAMBDA sc : shouldRemoveWord(sc, gridWidth, gridHeight)))
        maxRecommended == getMaxRecommendedWords(Min({gridWidth, gridHeight}))
        rescoredFiltered ==
            StableSort(scoreWords(passed),
                       LAMBDA a, b : b.intersectionCount < a.intersectionCount)
        overCap == Len(passed) > maxRecommended
        filteredWords ==
            IF overCap THEN CluesOf(SubSeq(rescoredFiltered, 1, maxRecommended))
            ELSE passed
        removedWords ==
            IF overCap
            THEN removed \o CluesOf(SubSeq(rescoredFiltered, maxRecommended + 1,
                                           Len(rescoredFiltered)))
            ELSE removed
        wasFiltered == Len(removedWords) > 0
    IN [filteredWords |-> filteredWords,
        removedWords |-> removedWords,
        originalCount |-> Len(words),
        filteredCount |-> Len(filteredWords),
        wasFiltered |-> wasFiltered,
        warning |-> IF wasFiltered THEN [removed |-> Len(removedWords)] ELSE Undefined,
        rulePassed |-> passed]

\* the engine, left alone while a pure function is called
EngineIdle ==
    /\ clues = <<>>
    /\ width = 0
    /\ height = 0
    /\ seed = NoSeed
    /\ now = 0
    /\ rng = 0
    /\ grid = <<>>
    /\ placements = <<>>
    /\ startPositions = <<>>
    /\ wordIdCounter = 0
    /\ order = <<>>
    /\ idx = 1
    /\ unplaced = <<>>
    /\ randomize = FALSE
    /\ sortedClues = <<>>
    /\ bestResult = NoAttempt
    /\ attempts = 0
    /\ result = NoResult
    /\ run = 1
    /\ firstResult = NoResult
    /\ history = <<>>
    /\ calls = <<>>
    /\ caught = Null

engineVars ==
    <<clues, width, height, seed, now, grid, placements, startPositions, rng,
      wordIdCounter, order, idx, unplaced, randomize, sortedClues, bestResult,
      attempts, result, run, firstResult, history>>

\* the arguments of a call that is about to be made
FilterInit ==
    /\ EngineIdle
    /\ pc = "filter"
    /\ \E a \in 1..(MaxSkip + 1), b \in 0..MaxWords, reversed \in BOOLEAN,
          size \in FilterGridSizes :
          args = [words |-> WordList(a, b, reversed),
                  gridWidth |-> size[1], gridHeight |-> size[2]]
    /\ ret = Undefined

\* the call applySuitabilityFilter(words, gridWidth, gridHeight)
ApplySuitabilityFilter ==
    /\ pc = "filter"
    /\ \E r \in {applySuitabilityFilter(args.words, args.gridWidth, args.gridHeight)} :
          ret' = r
    /\ pc' = "filtered"
    /\ UNCHANGED <<engineVars, args, calls, caught>>

FilterSpec == FilterInit /\ [][ApplySuitabilityFilter]_vars

-----------------------------------------------------------------------------
(* The validator of manual placements, validateManualPlacements: a pure    *)
(* function of the placements, their clue items and the grid size.  Its    *)
(* grid is indexed <<row, col>>.                                           *)

\* the longest list of manual placements
MaxManual == 3

\* the answers of the manual placements, as their graphemes; the second one
\* starts with the first one's first grapheme in a decomposed spelling, the
\* third one is the first one's last grapheme
ManualWords == { <<1, 2>>, <<11, 3>>, <<2>> }

ManualRows == {0, 1, 3}
ManualCols == {-1, 0, 2}
ManualWidth == 3
ManualHeight == 3

ManualPlacement ==
    [word : ManualWords, row : ManualRows, col : ManualCols,
     direction : {"ACROSS", "DOWN"}]


EmptyManualGrid(gridWidth, gridHeight) ==
    [c \in (0..(gridHeight - 1)) \X (0..(gridWidth - 1)) |-> EmptyCell]

\* a bounds check that looks at the first cell of the word only
checkBoundsManual_StartOnly(graphemes, row, col, direction, gridWidth, gridHeight) ==
    IF row < 0 \/ row >= gridHeight
    THEN [message |-> "Row is out of bounds", at |-> row, limit |-> gridHeight - 1]
    ELSE IF col < 0 \/ col >= gridWidth
    THEN [message |-> "Column is out of bounds", at |-> col, limit |-> gridWidth - 1]
    ELSE Null

\* the bounds check of the manual validator: an error message or null
checkBoundsManual(graphemes, row, col, direction, gridWidth, gridHeight) ==
    LET endRow == IF direction = "DOWN" THEN row + Len(graphemes) - 1 ELSE row
        endCol == IF direction = "ACROSS" THEN col + Len(graphemes) - 1 ELSE col
    IN IF row < 0 \/ row >= gridHeight
       THEN [message |-> "Row is out of bounds", at |-> row, limit |-> gridHeight - 1]
       ELSE IF col < 0 \/ col >= gridWidth
       THEN [message |-> "Column is out of bounds", at |-> col, limit |-> gridWidth - 1]
       ELSE IF endRow >= gridHeight
       THEN [message |-> "Word extends beyond grid (row)", at |-> endRow, limit |-> gridHeight]
       ELSE IF endCol >= gridWidth
       THEN [message |-> "Word extends beyond grid (col)", at |-> endCol, limit |-> gridWidth]
       ELSE Null

\* grid[cellRow]?.[cellCol]
ManualCell(g, cellRow, cellCol) ==
    IF <<cellRow, cellCol>> \in DOMAIN g THEN g[<<cellRow, cellCol>>] ELSE Undefined

\* a conflict check that finds no conflict
checkConflicts_Off(g, graphemes, row, col, direction) == Null

\* the first cell of the word that holds another grapheme, compared as strings
checkConflicts(g, graphemes, row, col, direction) ==
    LET cellRow(i) == IF direction = "DOWN" THEN row + i ELSE row
        cellCol(i) == IF direction = "ACROSS" THEN col + i ELSE col
        conflicts == {i \in 0..(Len(graphemes) - 1) :
                         /\ HasGrapheme(ManualCell(g, cellRow(i), cellCol(i)))
                         /\ ManualCell(g, cellRow(i), cellCol(i)).grapheme # graphemes[i + 1]}
    IN IF conflicts = {} THEN Null
       ELSE LET i == Min(conflicts)
            IN [message |-> "Conflict", row |-> cellRow(i), col |-> cellCol(i),
                expected |-> graphemes[i + 1],
                has |-> ManualCell(g, cellRow(i), cellCol(i)).grapheme]

placeWord(g, graphemes, row, col, direction, wordId) ==
    LET cellRow(i) == IF direction = "DOWN" THEN row + i ELSE row
        cellCol(i) == IF direction = "ACROSS" THEN col + i ELSE col
        at(c) == {i \in 0..(Len(graphemes) - 1) : c = <<cellRow(i), cellCol(i)>>}
    IN [c \in DOMAIN g |->
           IF at(c) = {} THEN g[c]
           ELSE [grapheme |-> graphemes[Min(at(c)) + 1],
                 wordIds |-> Append(g[c].wordIds, wordId)]]

\* the loop over the placements from index i on: the grid and the errors
RECURSIVE ValidateEach(_, _, _, _, _, _, _)
ValidateEach(i, placementList, clueItems, gridWidth, gridHeight, g, errors) ==
    IF i >= Len(placementList) THEN [grid |-> g, errors |-> errors]
    ELSE
    LET placement == placementList[i + 1]
        graphemes == clueItems[i + 1].graphemes
        boundsError == checkBoundsManual(graphemes, placement.row, placement.col,
                                         placement.direction, gridWidth, gridHeight)
        conflictError == checkConflicts(g, graphemes, placement.row, placement.col,
                                        placement.direction)
        continue(error) ==
            ValidateEach(i + 1, placementList, clueItems, gridWidth, gridHeight, g,
                         Append(errors, [index |-> i, word |-> placement.word,
                                         error |-> error]))
    IN IF i + 1 > Len(clueItems)
       THEN continue([message |-> "Missing placement or clue data"])
       ELSE IF boundsError # Null THEN continue(boundsError)
       ELSE IF conflictError # Null THEN continue(conflictError)
       ELSE ValidateEach(i + 1, placementList, clueItems, gridWidth, gridHeight,
                         placeWord(g, graphemes, placement.row, placement.col,
                                   placement.direction, i + 1),
                         errors)

validateManualPlacements(placementList, clueItems, gridWidth, gridHeight) ==
    LET checked == ValidateEach(0, placementList, clueItems, gridWidth, gridHeight,
                                EmptyManualGrid(gridWidth, gridHeight), <<>>)
    IN IF Len(checked.errors) > 0
       THEN [valid |-> FALSE, errors |-> checked.errors, puzzle |-> Undefined]
       ELSE [valid |-> TRUE, errors |-> <<>>,
             puzzle |-> [grid |-> checked.grid,
                         gridWidth |-> gridWidth,
                         gridHeight |-> gridHeight,
                         placements |->
                             [k \in 1..Len(placementList) |->
                                 [wordId |-> k,
                                  clueItem |-> clueItems[k],
                                  startX |-> placementList[k].col,
                                  startY |-> placementList[k].row,
                                  direction |-> placementList[k].direction,
                                  placed |-> TRUE]],
                         unplacedWords |-> <<>>]]

\* the clue items of a list of placements: one for each placement, or the
\* last one missing
ClueItemsOf(placementList, complete) ==
    [k \in 1..(IF complete \/ Len(placementList) = 0
               THEN Len(placementList) ELSE Len(placementList) - 1) |->
        [graphemes |-> placementList[k].word]]

\* the arguments of a call that is about to be made
ManualInit ==
    /\ EngineIdle
    /\ pc = "manual"
    /\ \E n \in 0..MaxManual, complete \in BOOLEAN :
           \E placementList \in [1..n -> ManualPlacement] :
               args = [placements |-> placementList,
                       clueItems |-> ClueItemsOf(placementList, complete),
                       gridWidth |-> ManualWidth, gridHeight |-> ManualHeight]
    /\ ret = Undefined

\* the call validateManualPlacements(placements, clueItems, gridWidth, gridHeight)
ValidateManualPlacements ==
    /\ pc = "manual"
    /\ \E r \in {validateManualPlacements(args.placements, args.clueItems,
                                          args.gridWidth, args.gridHeight)} :
          ret' = r
    /\ pc' = "validated"
    /\ UNCHANGED <<engineVars, args, calls, caught>>

ManualSpec == ManualInit /\ [][ValidateManualPlacements]_vars

-----------------------------------------------------------------------------
(* The polyomino partitioner, generatePolyomino: a pure function of the    *)
(* placements and the configuration.  A key "x,y" is the pair <<x, y>>; a  *)
(* Map or Set with insertion order is a sequence.                          *)

\* the longest list of placements handed to the partitioner
MaxPlaced == 3

\* maxPasses of mergeUndersizedPieces
maxPasses == 10

\* the grapheme of the layouts at cell (x, y): words that share a cell agree
PolyLetter(x, y) == 1 + ((x + 2 * y) % 3)

PolyPlacement(startX, startY, direction, length) ==
    [startX |-> startX, startY |-> startY, direction |-> direction,
     clueItem |-> [graphemes |->
         [i \in 1..length |->
             IF direction = "ACROSS" THEN PolyLetter(startX + i - 1, startY)
             ELSE PolyLetter(startX, startY + i - 1)]]]

\* the words of the layouts on a 5 x 4 grid: a long word in row 1, words
\* that cross it at its middle and at its ends, and words beside it
PolyPool ==
    { PolyPlacement(0, 1, "ACROSS", 5),
      PolyPlacement(2, 0, "DOWN", 3),
      PolyPlacement(0, 1, "DOWN", 3),
      PolyPlacement(4, 0, "DOWN", 4),
      PolyPlacement(0, 2, "ACROSS", 3),
      PolyPlacement(1, 0, "ACROSS", 2),
      PolyPlacement(2, 0, "DOWN", 2),
      PolyPlacement(1, 1, "ACROSS", 3) }

PolyWidth == 5
PolyHeight == 4

\* { minPieceSize, maxPieceSize, allowSingleCrossPentomino }: the values the
\* configuration form offers, and a configuration whose minimum is above the
\* five cells of the plus
PolyConfigs ==
    [minPieceSize : {1, 2, 3}, maxPieceSize : {3, 4, 5},
     allowSingleCrossPentomino : BOOLEAN]
    \cup [minPieceSize : {6}, maxPieceSize : {6}, allowSingleCrossPentomino : BOOLEAN]

DEFAULT_POLYOMINO_CONFIG ==
    [minPieceSize |-> 2, maxPieceSize |-> 4, allowSingleCrossPentomino |-> FALSE]

\* every cell a list of placements writes, in the order of the writes
RECURSIVE Visits(_)
Visits(placed) ==
    IF placed = <<>> THEN <<>>
    ELSE LET p == Head(placed)
         IN [i \in 1..Len(p.clueItem.graphemes) |->
                [x |-> IF p.direction = "ACROSS" THEN p.startX + i - 1 ELSE p.startX,
                 y |-> IF p.direction = "DOWN" THEN p.startY + i - 1 ELSE p.startY,
                 letter |-> p.clueItem.graphemes[i]]]
            \o Visits(Tail(placed))

\* the positions in cellMap of the cell at (x, y): none or one
KeysAt(cellMap, x, y) == {k \in 1..Len(cellMap) : cellMap[k].x = x /\ cellMap[k].y = y}

\* cellMap.has(cellKey(x, y))
HasCell(cellMap, x, y) == KeysAt(cellMap, x, y) # {}

\* cellMap.get(cellKey(x, y)) of a cell that is there
CellOfMap(cellMap, x, y) == cellMap[CHOOSE k \in KeysAt(cellMap, x, y) : TRUE]

\* step 1: the registry of the cells, in the order of their first write
RECURSIVE Register(_, _)
Register(visits, cellMap) ==
    IF visits = <<>> THEN cellMap
    ELSE LET v == Head(visits)
         IN Register(Tail(visits),
                IF HasCell(cellMap, v.x, v.y)
                THEN [cellMap EXCEPT
                         ![CHOOSE k \in KeysAt(cellMap, v.x, v.y) : TRUE].wordCount = @ + 1]
                ELSE Append(cellMap, [x |-> v.x, y |-> v.y, letter |-> v.letter,
                                      blockId |-> Len(cellMap), wordCount |-> 1]))

getBlockId(cellMap, x, y) ==
    IF HasCell(cellMap, x, y) THEN CellOfMap(cellMap, x, y).blockId ELSE -1

\* four neighbours of which the first lies on the diagonal
NeighborKeys_Diagonal(x, y) ==
    << <<x + 1, y - 1>>, <<x + 1, y>>, <<x, y + 1>>, <<x - 1, y>> >>

\* the four neighbours of (x, y): up, right, down, left
NeighborKeys(x, y) == << <<x, y - 1>>, <<x + 1, y>>, <<x, y + 1>>, <<x - 1, y>> >>

\* a piece whose anchor is the first cell of the list
createPiece_AnchorFirst(cells, pieceIndex, cellMap) ==
    LET anchor == cells[1]
        pieceCells ==
            [k \in 1..Len(cells) |->
                [relX |-> cells[k].x - anchor.x,
                 relY |-> cells[k].y - anchor.y,
                 letter |-> cells[k].letter,
                 blockId |-> cells[k].blockId,
                 node |-> [d \in 1..4 |->
                     getBlockId(cellMap, NeighborKeys(cells[k].x, cells[k].y)[d][1],
                                NeighborKeys(cells[k].x, cells[k].y)[d][2])]]]
    IN [id |-> <<"piece", pieceIndex>>,
        correctX |-> anchor.x,
        correctY |-> anchor.y,
        cells |-> StableSort(pieceCells,
                      LAMBDA a, b : a.relY < b.relY \/ (a.relY = b.relY /\ a.relX < b.relX))]

createPiece(cells, pieceIndex, cellMap) ==
    LET anchor == CHOOSE c \in {cells[k] : k \in 1..Len(cells)} :
                      \A d \in {cells[k] : k \in 1..Len(cells)} :
                          c.y < d.y \/ (c.y = d.y /\ c.x <= d.x)
        pieceCells ==
            [k \in 1..Len(cells) |->
                [relX |-> cells[k].x - anchor.x,
                 relY |-> cells[k].y - anchor.y,
                 letter |-> cells[k].letter,
                 blockId |-> cells[k].blockId,
                 node |-> [d \in 1..4 |->
                     getBlockId(cellMap, NeighborKeys(cells[k].x, cells[k].y)[d][1],
                                NeighborKeys(cells[k].x, cells[k].y)[d][2])]]]
    IN [id |-> <<"piece", pieceIndex>>,
        correctX |-> anchor.x,
        correctY |-> anchor.y,
        cells |-> StableSort(pieceCells,
                      LAMBDA a, b : a.relY < b.relY \/ (a.relY = b.relY /\ a.relX < b.relX))]

\* a search for the cross that takes cells already assigned
findCrossCells_AnyCenter(cellMap, unassigned) ==
    LET centers == SelectSeq(cellMap, LAMBDA c : c.wordCount >= 2)
    IN IF centers = <<>> THEN <<>>
       ELSE <<centers[1]>> \o
            SelectSeq(cellMap, LAMBDA c :
                \E d \in 1..4 : NeighborKeys(centers[1].x, centers[1].y)[d] = <<c.x, c.y>>)

\* the cells of the first cross that can be formed (centre, up, right, down,
\* left), or the empty list
findCrossCells(cellMap, unassigned) ==
    LET intersectionCells ==
            StableSort(SelectSeq(cellMap,
                           LAMBDA c : c.wordCount >= 2 /\ <<c.x, c.y>> \in unassigned),
                       LAMBDA a, b : b.wordCount < a.wordCount)
        avail(c) == \A d \in 1..4 :
                        /\ HasCell(cellMap, NeighborKeys(c.x, c.y)[d][1], NeighborKeys(c.x, c.y)[d][2])
                        /\ NeighborKeys(c.x, c.y)[d] \in unassigned
        centers == SelectSeq(intersectionCells, avail)
    IN IF centers = <<>> THEN <<>>
       ELSE <<centers[1]>> \o
            [d \in 1..4 |-> CellOfMap(cellMap, NeighborKeys(centers[1].x, centers[1].y)[d][1],
                                      NeighborKeys(centers[1].x, centers[1].y)[d][2])]

\* the loop over the neighbours of the current cell of the search
RECURSIVE VisitNeighbors(_, _, _, _, _, _)
VisitNeighbors(neighbors, queue, pieceCells, unassigned, cellMap, effectiveMaxSize) ==
    IF neighbors = <<>>
    THEN [queue |-> queue, pieceCells |-> pieceCells, unassigned |-> unassigned]
    ELSE LET nKey == Head(neighbors)
         IN IF nKey \in unassigned /\ Len(pieceCells) < effectiveMaxSize
            THEN VisitNeighbors(Tail(neighbors), Append(queue, nKey),
                                Append(pieceCells, CellOfMap(cellMap, nKey[1], nKey[2])),
                                unassigned \ {nKey}, cellMap, effectiveMaxSize)
            ELSE VisitNeighbors(Tail(neighbors), queue, pieceCells, unassigned,
                                cellMap, effectiveMaxSize)

\* the breadth-first growth of one piece
RECURSIVE Grow(_, _, _, _, _)
Grow(queue, pieceCells, unassigned, cellMap, effectiveMaxSize) ==
    IF queue = <<>> \/ Len(pieceCells) >= effectiveMaxSize
    THEN [pieceCells |-> pieceCells, unassigned |-> unassigned]
    ELSE LET visited == VisitNeighbors(NeighborKeys(Head(queue)[1], Head(queue)[2]),
                                       Tail(queue), pieceCells, unassigned, cellMap,
                                       effectiveMaxSize)
         IN Grow(visited.queue, visited.pieceCells, visited.unassigned, cellMap,
                 effectiveMaxSize)

\* step 4: the greedy partition of the cells that are left
RECURSIVE Partition(_, _, _, _, _, _)
Partition(unassigned, pieces, pieceCounter, sortedKeys, cellMap, effectiveMaxSize) ==
    IF unassigned = {} THEN pieces
    ELSE LET seedKey == sortedKeys[Min({k \in 1..Len(sortedKeys) : sortedKeys[k] \in unassigned})]
             grown == Grow(<<seedKey>>, <<CellOfMap(cellMap, seedKey[1], seedKey[2])>>,
                           unassigned \ {seedKey}, cellMap, effectiveMaxSize)
         IN Partition(grown.unassigned,
                      Append(pieces, createPiece(grown.pieceCells, pieceCounter, cellMap)),
                      pieceCounter + 1, sortedKeys, cellMap, effectiveMaxSize)

\* the end of the absorption chain of a group; 0 marks a group not absorbed
RECURSIVE RootOf(_, _)
RootOf(absorbedInto, index) ==
    IF absorbedInto[index] = 0 THEN index ELSE RootOf(absorbedInto, absorbedInto[index])

\* a list without its repetitions, each value at its first place
RECURSIVE Distinct(_)
Distinct(seq) ==
    IF seq = <<>> THEN <<>>
    ELSE LET front == Distinct(SubSeq(seq, 1, Len(seq) - 1))
             last == seq[Len(seq)]
         IN IF \E k \in 1..Len(front) : front[k] = last THEN front
            ELSE Append(front, last)

\* the list of lists, end to end
RECURSIVE Flatten(_)
Flatten(seqs) == IF seqs = <<>> THEN <<>> ELSE Head(seqs) \o Flatten(Tail(seqs))

\* a merge bound that is maxPieceSize alone
MergeBound_MaxOnly(polyConfig) == polyConfig.maxPieceSize

\* Math.max(config.maxPieceSize, 5)
MergeBound(polyConfig) == Max({polyConfig.maxPieceSize, 5})

\* the loop over the undersized groups of one pass
RECURSIVE MergeEach(_, _, _, _, _, _, _)
MergeEach(undersizedIndices, pieceCellGroups, cellMap, polyConfig, absorbedInto, groupSizes, passMerges) ==
    IF undersizedIndices = <<>>
    THEN [absorbedInto |-> absorbedInto, passMerges |-> passMerges]
    ELSE
    LET smallIdx == Head(undersizedIndices)
        rest == Tail(undersizedIndices)
        smallGroup == pieceCellGroups[smallIdx]
        neighborBlockIds ==
            Distinct(Flatten(
                [c \in 1..Len(smallGroup) |->
                    LET keys == SelectSeq(NeighborKeys(smallGroup[c].x, smallGroup[c].y),
                                          LAMBDA key : HasCell(cellMap, key[1], key[2]))
                    IN [d \in 1..Len(keys) |-> getBlockId(cellMap, keys[d][1], keys[d][2])]]))
        blockToGroupIdx(blockId) ==
            CHOOSE g \in 1..Len(pieceCellGroups) :
                \E c \in 1..Len(pieceCellGroups[g]) : pieceCellGroups[g][c].blockId = blockId
        targets ==
            Distinct([k \in 1..Len(neighborBlockIds) |->
                         RootOf(absorbedInto, blockToGroupIdx(neighborBlockIds[k]))])
        candidates ==
            StableSort(
                [k \in 1..Len(SelectSeq(targets, LAMBDA t :
                        t # smallIdx /\ groupSizes[t] + Len(smallGroup) <= MergeBound(polyConfig))) |->
                    LET t == SelectSeq(targets, LAMBDA u :
                                 u # smallIdx
                                 /\ groupSizes[u] + Len(smallGroup) <= MergeBound(polyConfig))[k]
                    IN [groupIdx |-> t, currentSize |-> groupSizes[t]]],
                LAMBDA a, b : a.currentSize < b.currentSize)
    IN IF absorbedInto[smallIdx] # 0 \/ Len(smallGroup) >= polyConfig.minPieceSize
       THEN MergeEach(rest, pieceCellGroups, cellMap, polyConfig, absorbedInto, groupSizes,
                      passMerges)
       ELSE IF candidates = <<>>
       THEN MergeEach(rest, pieceCellGroups, cellMap, polyConfig, absorbedInto, groupSizes,
                      passMerges)
       ELSE LET targetIdx == candidates[1].groupIdx
            IN MergeEach(rest, pieceCellGroups, cellMap, polyConfig,
                         [absorbedInto EXCEPT ![smallIdx] = targetIdx],
                         [groupSizes EXCEPT ![targetIdx] = @ + Len(smallGroup)],
                         passMerges + 1)

\* the groups after a pass: every group's cells moved to the end of its chain
RebuildGroups(pieceCellGroups, absorbedInto) ==
    LET newGroups ==
            [t \in 1..Len(pieceCellGroups) |->
                Flatten([i \in 1..Len(pieceCellGroups) |->
                            IF RootOf(absorbedInto, i) = t THEN pieceCellGroups[i]
                            ELSE <<>>])]
    IN SelectSeq(newGroups, LAMBDA g : Len(g) > 0)

\* the passes of the merge, from pass number pass + 1 on: the groups they
\* leave and the value of pass at the end of the loop
RECURSIVE MergePasses(_, _, _, _)
MergePasses(pieceCellGroups, cellMap, polyConfig, pass) ==
    LET undersized == {g \in 1..Len(pieceCellGroups) :
                          Len(pieceCellGroups[g]) < polyConfig.minPieceSize}
        undersizedIndices ==
            StableSort(SelectSeq([g \in 1..Len(pieceCellGroups) |-> g],
                                 LAMBDA g : g \in undersized),
                       LAMBDA a, b : Len(pieceCellGroups[a]) < Len(pieceCellGroups[b]))
        merged == MergeEach(undersizedIndices, pieceCellGroups, cellMap, polyConfig,
                            [g \in 1..Len(pieceCellGroups) |-> 0],
                            [g \in 1..Len(pieceCellGroups) |-> Len(pieceCellGroups[g])],
                            0)
    IN IF pass >= maxPasses THEN [groups |-> pieceCellGroups, passes |-> pass]
       ELSE IF undersized = {} \/ merged.passMerges = 0
       THEN [groups |-> pieceCellGroups, passes |-> pass + 1]
       ELSE MergePasses(RebuildGroups(pieceCellGroups, merged.absorbedInto), cellMap,
                        polyConfig, pass + 1)

\* step 5: the pieces after the merge of the undersized ones; passes is not
\* part of what the code returns: it is the number of passes the loop began
mergeUndersizedPieces(pieces, cellMap, polyConfig) ==
    LET pieceCellGroups ==
            [k \in 1..Len(pieces) |->
                [c \in 1..Len(pieces[k].cells) |-> cellMap[pieces[k].cells[c].blockId + 1]]]
        merged == MergePasses(pieceCellGroups, cellMap, polyConfig, 0)
    IN [pieces |-> [k \in 1..Len(merged.groups) |->
                       createPiece(merged.groups[k], k - 1, cellMap)],
        passes |-> merged.passes]

\* step 6: the advisory validation; its errors, by their kind
validatePolyominoOutput(pieces, polyConfig, crossPentominoCreated) ==
    LET pieceSizes == [k \in 1..Len(pieces) |-> Len(pieces[k].cells)]
        undersized == SelectSeq(pieceSizes, LAMBDA n : n < polyConfig.minPieceSize)
        oversized == SelectSeq(pieceSizes, LAMBDA n : n > polyConfig.maxPieceSize /\ n # 5)
        size5Pieces == SelectSeq(pieceSizes, LAMBDA n : n = 5)
        errors ==
            (IF Len(undersized) > 0 THEN <<"below minPieceSize">> ELSE <<>>)
            \o (IF Len(oversized) > 0 THEN <<"above maxPieceSize">> ELSE <<>>)
            \o (IF Len(size5Pieces) > 1 THEN <<"5-cell pieces found, max allowed is 1">>
                ELSE <<>>)
            \o (IF Len(size5Pieces) = 1 /\ ~crossPentominoCreated
                THEN <<"5-cell piece exists but was not created as cross pentomino">>
                ELSE <<>>)
    IN [valid |-> errors = <<>>, errors |-> errors]

\* the puzzle; validation, reserved, partitioned and passes are not fields of
\* the code's result: they are what step 6 found and logged, the cells step 3
\* took out of the unassigned pool, the pieces as step 4 left them, and the
\* passes of step 5
generatePolyomino(placed, gridWidth, gridHeight, theme, polyConfig) ==
    LET cellMap == Register(Visits(placed), <<>>)
        allKeys == {<<cellMap[k].x, cellMap[k].y>> : k \in 1..Len(cellMap)}
        crossCells == IF polyConfig.allowSingleCrossPentomino
                      THEN findCrossCells(cellMap, allKeys) ELSE <<>>
        crossPentominoCreated == crossCells # <<>>
        firstPieces == IF crossPentominoCreated
                       THEN <<createPiece(crossCells, 0, cellMap)>> ELSE <<>>
        sortedKeys ==
            LET sorted == StableSort(cellMap,
                              LAMBDA a, b : \/ b.wordCount < a.wordCount
                                            \/ /\ a.wordCount = b.wordCount
                                               /\ \/ a.y < b.y
                                                  \/ a.y = b.y /\ a.x < b.x)
            IN [k \in 1..Len(sorted) |-> <<sorted[k].x, sorted[k].y>>]
        pieces == Partition(allKeys \ {<<crossCells[k].x, crossCells[k].y>> :
                                          k \in 1..Len(crossCells)},
                            firstPieces, Len(firstPieces), sortedKeys, cellMap,
                            polyConfig.maxPieceSize)
        merge == mergeUndersizedPieces(pieces, cellMap, polyConfig)
        mergedPieces == merge.pieces
    IN [theme |-> theme,
        gridWidth |-> gridWidth,
        gridHeight |-> gridHeight,
        pieces |-> mergedPieces,
        validation |-> validatePolyominoOutput(mergedPieces, polyConfig, crossPentominoCreated),
        reserved |-> [k \in 1..Len(crossCells) |-> <<crossCells[k].x, crossCells[k].y>>],
        partitioned |-> pieces,
        passes |-> merge.passes]

\* the arguments of a call that is about to be made
PolyInit ==
    /\ EngineIdle
    /\ pc = "polyomino"
    /\ \E n \in 1..MaxPlaced, polyConfig \in PolyConfigs :
           \E placed \in [1..n -> PolyPool] :
               args = [placements |-> placed, gridWidth |-> PolyWidth,
                       gridHeight |-> PolyHeight, theme |-> "theme", config |-> polyConfig]
    /\ ret = Undefined

\* the call generatePolyomino(placements, gridWidth, gridHeight, theme, config)
GeneratePolyomino ==
    /\ pc = "polyomino"
    /\ \E r \in {generatePolyomino(args.placements, args.gridWidth, args.gridHeight,
                                   args.theme, args.config)} :
          ret' = r
    /\ pc' = "partitioned"
    /\ UNCHANGED <<engineVars, args, calls, caught>>

PolySpec == PolyInit /\ [][GeneratePolyomino]_vars

-----------------------------------------------------------------------------
(* Answers as text: a string is a sequence of code points, a grapheme is   *)
(* the sequence of the code points of one cluster.  The clue item of an    *)
(* answer is built by processClues (ai mode) or by the route (manual       *)
(* modes), and its graphemes are encoded by serializeToPayload.            *)

\* the longest answer text, in code points
MaxText == 3

\* the code points of the answers: two letters, a spacing vowel sign that
\* joins the cluster before it and composes with nothing, the braces, the
\* space, the combining acute, and the letters composed with the acute
Cp ==
    [A |-> 1, a |-> 2, sign |-> 3, open |-> 4, close |-> 5, space |-> 6,
     acute |-> 7, Aacute |-> 8, aacute |-> 9]

CodePoints == {Cp.A, Cp.a, Cp.sign, Cp.open, Cp.close, Cp.space, Cp.acute, Cp.Aacute,
               Cp.aacute}

Texts == UNION {[1..n -> CodePoints] : n \in 1..MaxText}

\* String.prototype.toUpperCase
toUpperCase(text) ==
    [k \in 1..Len(text) |->
        IF text[k] = Cp.a THEN Cp.A
        ELSE IF text[k] = Cp.aacute THEN Cp.Aacute
        ELSE text[k]]

\* text.normalize('NFC'): a letter and the acute right after it compose
RECURSIVE normalizeNFCText(_)
normalizeNFCText(text) ==
    IF text = <<>> THEN <<>>
    ELSE IF Len(text) >= 2 /\ text[1] = Cp.A /\ text[2] = Cp.acute
    THEN <<Cp.Aacute>> \o normalizeNFCText(SubSeq(text, 3, Len(text)))
    ELSE IF Len(text) >= 2 /\ text[1] = Cp.a /\ text[2] = Cp.acute
    THEN <<Cp.aacute>> \o normalizeNFCText(SubSeq(text, 3, Len(text)))
    ELSE <<text[1]>> \o normalizeNFCText(Tail(text))

\* Intl.Segmenter, granularity 'grapheme': the sign and the acute extend the
\* cluster before them
RECURSIVE Segment(_)
Segment(text) ==
    IF text = <<>> THEN <<>>
    ELSE LET front == Segment(SubSeq(text, 1, Len(text) - 1))
             last == text[Len(text)]
         IN IF last \in {Cp.sign, Cp.acute} /\ front # <<>>
            THEN [front EXCEPT ![Len(front)] = Append(@, last)]
            ELSE Append(front, <<last>>)

toGraphemes(text) == Segment(normalizeNFCText(text))

\* spaces and punctuation removed, then NFC
cleanAnswerText(text) ==
    normalizeNFCText(SelectSeq(text, LAMBDA c : c \notin {Cp.space, Cp.open, Cp.close}))

codepointCount(grapheme) == Len(grapheme)

isMultiCodepoint(grapheme) == codepointCount(grapheme) > 1

\* an encoding that wraps every grapheme
encodeGrapheme_AlwaysWraps(grapheme) == <<Cp.open>> \o grapheme \o <<Cp.close>>

encodeGrapheme(grapheme) ==
    IF isMultiCodepoint(grapheme) THEN <<Cp.open>> \o grapheme \o <<Cp.close>>
    ELSE grapheme

\* parts.join('')
RECURSIVE Join(_)
Join(parts) == IF parts = <<>> THEN <<>> ELSE Head(parts) \o Join(Tail(parts))

\* clue.graphemes.map(encodeGrapheme).join('')
EncodeGraphemes(graphemes) ==
    Join([k \in 1..Len(graphemes) |-> encodeGrapheme(graphemes[k])])

\* the clue item processClues makes of a raw answer, or null
processClue(answer) ==
    LET cleanedAnswer == cleanAnswerText(answer)
        graphemes == toGraphemes(cleanedAnswer)
    IN IF Len(cleanedAnswer) = 0 THEN Null
       ELSE IF Len(graphemes) < 2 \/ Len(graphemes) > 20 THEN Null
       ELSE [graphemes |-> graphemes, answerText |-> cleanedAnswer]

\* the clue item the route makes of a manual word
manualClue(word) ==
    [graphemes |-> Segment(toUpperCase(word)), answerText |-> toUpperCase(word)]

\* an answer that is about to be taken in, in ai mode or in a manual mode
AnswerInit ==
    /\ EngineIdle
    /\ pc = "answer"
    /\ \E text \in Texts, mode \in {"ai", "manual"} :
           args = [answer |-> text, mode |-> mode]
    /\ ret = Undefined

\* the clue item of the answer and, when there is one, its encoded answer
EncodeAnswer ==
    /\ pc = "answer"
    /\ \E item \in {IF args.mode = "ai" THEN processClue(args.answer)
                    ELSE manualClue(args.answer)} :
          ret' = [clueItem |-> item,
                  encodedAnswer |-> IF item = Null THEN Null
                                    ELSE EncodeGraphemes(item.graphemes)]
    /\ pc' = "encoded"
    /\ UNCHANGED <<engineVars, args, calls, caught>>

AnswerSpec == AnswerInit /\ [][EncodeAnswer]_vars

-----------------------------------------------------------------------------
(* The payload, serializeToPayload: a pure function of a puzzle and of     *)
(* removeUnplacedWords.                                                    *)

\* the most placed words, and the most unplaced words, of a serialized puzzle
MaxSerialized == 2

\* the clue items of the serialized puzzles
SerializedClues ==
    { [graphemes |-> << <<Cp.A>>, <<Cp.A, Cp.sign>> >>, clueText |-> "first clue"],
      [graphemes |-> << <<Cp.Aacute>>, <<Cp.A>> >>, clueText |-> "second clue"],
      [graphemes |-> << <<Cp.A, Cp.sign, Cp.sign>>, <<Cp.A, Cp.acute>>, <<Cp.A>> >>,
       clueText |-> "third clue"] }

\* a puzzle as generatePuzzle and validateManualPlacements return it: the
\* placed words in the order of their wordIds 1, 2, ..., and the unplaced ones
SerializedPuzzle(placedClues, unplacedClues) ==
    [placements |->
         [k \in 1..Len(placedClues) |->
             [wordId |-> k, clueItem |-> placedClues[k], startX |-> 0, startY |-> k - 1,
              direction |-> "ACROSS", placed |-> TRUE]],
     unplacedWords |-> unplacedClues]

\* unplaced words numbered from 1
UnplacedPlacements_NumberedFromOne(placed, unplacedWords) ==
    [j \in 1..Len(unplacedWords) |->
        [wordId |-> j, clueItem |-> unplacedWords[j], startX |-> -1,
         startY |-> -1, direction |-> "ACROSS", placed |-> FALSE]]

\* the placements made of the unplaced words, numbered after the placed ones
UnplacedPlacements(placed, unplacedWords) ==
    [j \in 1..Len(unplacedWords) |->
        [wordId |-> Len(placed) + j, clueItem |-> unplacedWords[j], startX |-> -1,
         startY |-> -1, direction |-> "ACROSS", placed |-> FALSE]]

\* URLSearchParams.toString: key=value pairs joined by "&", the values
\* percent-encoded
PercentEncoded(value) == [percentEncoded |-> value]

RECURSIVE QueryString(_)
QueryString(params) ==
    IF params = <<>> THEN <<>>
    ELSE <<params[1].key, "=", PercentEncoded(params[1].value)>>
         \o (IF Len(params) > 1 THEN <<"&">> ELSE <<>>)
         \o QueryString(Tail(params))

serializeToPayload(puzzle, removeUnplacedWords) ==
    LET placed == SelectSeq(puzzle.placements, LAMBDA p : p.placed)
        chosen == IF removeUnplacedWords THEN placed
                  ELSE placed \o UnplacedPlacements(placed, puzzle.unplacedWords)
        sorted == StableSort(chosen, LAMBDA a, b : a.wordId < b.wordId)
        params ==
            Join([n \in 1..Len(sorted) |->
                     << [key |-> <<"ans", n>>,
                         value |-> EncodeGraphemes(sorted[n].clueItem.graphemes)],
                        [key |-> <<"question", n>>,
                         value |-> sorted[n].clueItem.clueText] >>])
            \o (IF removeUnplacedWords
                THEN << [key |-> <<"removeUnplacedWords">>, value |-> "true"] >>
                ELSE <<>>)
    IN QueryString(params)

\* the arguments of a call that is about to be made
SerializeInit ==
    /\ EngineIdle
    /\ pc = "serialize"
    /\ \E k \in 0..MaxSerialized, u \in 0..MaxSerialized, removeUnplacedWords \in BOOLEAN :
           \E placedClues \in [1..k -> SerializedClues],
              unplacedClues \in [1..u -> SerializedClues] :
               args = [puzzle |-> SerializedPuzzle(placedClues, unplacedClues),
                       removeUnplacedWords |-> removeUnplacedWords]
    /\ ret = Undefined

\* the call serializeToPayload(puzzle, removeUnplacedWords)
SerializeToPayload ==
    /\ pc = "serialize"
    /\ \E r \in {serializeToPayload(args.puzzle, args.removeUnplacedWords)} : ret' = r
    /\ pc' = "serialized"
    /\ UNCHANGED <<engineVars, args, calls, caught>>

SerializeSpec == SerializeInit /\ [][SerializeToPayload]_vars

-----------------------------------------------------------------------------
(* The handler of POST /generate-crossword, from the parsed request to the *)
(* response, one action for each stretch between two awaits.  Every await  *)
(* of the persistence service or of the clue generator either returns or   *)
(* throws.  The engine's puzzle and the payload are those of the models    *)
(* above; here the handler keeps the order of its calls and the response's *)
(* status, success and error.                                              *)

\* the parsed requests: the mode, whether inputType and inputValue are given
\* (ai), the words (the generator's clues in ai mode), whether every word has
\* row, col and direction and whether the placements are compatible
\* (manual_advanced), and the grid
Requests ==
    [mode : {"ai", "manual_basic", "manual_advanced"},
     hasInput : BOOLEAN,
     words : {<<>>, WordList(2, 2, FALSE), WordList(4, 5, FALSE), WordList(1, 3, FALSE),
              WordList(6, 8, TRUE)},
     positions : {"missing", "clashing", "compatible"},
     grid : {<<5, 5>>, <<12, 12>>}]

\* the error an awaited call throws; the handler's own errors are
\* [message |-> ...]
Failure(call) == [thrownBy |-> call]

\* the handler's response
Reply(code, success, error) == [code |-> code, success |-> success, error |-> error]

\* await call(...): it returns and the handler goes on to next, or it throws
Await(call, next) ==
    \/ /\ calls' = Append(calls, [call |-> call, threw |-> FALSE])
       /\ pc' = next
       /\ UNCHANGED <<caught, ret>>
    \/ /\ calls' = Append(calls, [call |-> call, threw |-> TRUE])
       /\ caught' = Failure(call)
       /\ pc' = "catch"
       /\ UNCHANGED ret

\* await saveSummary(...) and then return the response
SummaryThenReply(reply) ==
    \/ /\ calls' = Append(calls, [call |-> "saveSummary", threw |-> FALSE])
       /\ ret' = reply
       /\ pc' = "returned"
       /\ UNCHANGED caught
    \/ /\ calls' = Append(calls, [call |-> "saveSummary", threw |-> TRUE])
       /\ caught' = Failure("saveSummary")
       /\ pc' = "catch"
       /\ UNCHANGED ret

\* the request has been parsed
RouteInit ==
    /\ EngineIdle
    /\ pc = "candidates"
    /\ args \in Requests
    /\ ret = Undefined

\* step 1: the candidate words, or the bad request
GetCandidates ==
    /\ pc = "candidates"
    /\ IF args.mode = "ai"
       THEN IF ~args.hasInput
            THEN /\ ret' = Reply(400, FALSE, [message |-> "inputType and inputValue required for AI mode"])
                 /\ pc' = "returned"
                 /\ UNCHANGED <<calls, caught>>
            ELSE Await("generateClues", "saveGeminiRaw")
       ELSE IF Len(args.words) = 0
            THEN /\ ret' = Reply(400, FALSE, [message |-> "words list required for manual mode"])
                 /\ pc' = "returned"
                 /\ UNCHANGED <<calls, caught>>
            ELSE /\ pc' = "saveCandidates"
                 /\ UNCHANGED <<calls, caught, ret>>
    /\ UNCHANGED <<engineVars, args>>

\* the awaits that the handler follows by the next step whatever they return
Save ==
    /\ \/ pc = "saveGeminiRaw" /\ Await("saveGeminiRaw", "saveCandidates")
       \/ pc = "saveCandidates" /\ Await("saveCandidates", "filter")
       \/ pc = "savePlacements" /\ Await("savePlacements", "saveGrid")
       \/ pc = "saveGrid" /\ Await("saveGrid", "saveMeta")
       \/ pc = "saveMeta" /\ Await("saveMeta", "saveSummary")
    /\ UNCHANGED <<engineVars, args>>

\* manual_advanced: the placements are validated; a failed validation is
\* summarised and answered with 400
ValidateManual ==
    /\ pc = "filter"
    /\ args.mode = "manual_advanced"
    /\ IF args.positions = "missing"
       THEN /\ caught' = [message |-> "row, col, and direction required for manual_advanced words"]
            /\ pc' = "catch"
            /\ UNCHANGED <<calls, ret>>
       ELSE IF args.positions = "clashing"
            THEN SummaryThenReply(Reply(400, FALSE, [message |-> "Invalid placement"]))
            ELSE Await("saveFiltered", "savePlacements")
    /\ UNCHANGED <<engineVars, args>>

\* ai and manual_basic: the suitability filter, then filtered.json
Filter ==
    /\ pc = "filter"
    /\ args.mode # "manual_advanced"
    /\ Await("saveFiltered", "place")
    /\ UNCHANGED <<engineVars, args>>

\* a handler that calls the engine on whatever the filter kept
Place_EngineFirst ==
    /\ pc = "place"
    /\ calls' = Append(calls, [call |-> "generateCrossword", threw |-> FALSE])
    /\ pc' = "savePlacements"
    /\ UNCHANGED <<caught, ret>>
    /\ UNCHANGED <<engineVars, args>>

\* no word passed the filter: summary.json, then the response 500; else the
\* engine is called
Place ==
    /\ pc = "place"
    /\ IF Len(applySuitabilityFilter(args.words, args.grid[1], args.grid[2]).filteredWords) = 0
       THEN SummaryThenReply(Reply(500, FALSE, [message |-> "No words passed filter."]))
       ELSE /\ calls' = Append(calls, [call |-> "generateCrossword", threw |-> FALSE])
            /\ pc' = "savePlacements"
            /\ UNCHANGED <<caught, ret>>
    /\ UNCHANGED <<engineVars, args>>

\* the last summary.json and the response of a generated puzzle
Succeed ==
    /\ pc = "saveSummary"
    /\ SummaryThenReply(Reply(200, TRUE, Undefined))
    /\ UNCHANGED <<engineVars, args>>

\* a catch block that writes no summary.json
Catch_NoSummary ==
    /\ pc = "catch"
    /\ ret' = Reply(500, FALSE, caught)
    /\ pc' = "returned"
    /\ UNCHANGED <<engineVars, args, caught, calls>>

\* the catch block: a summary.json is tried, its own failure ignored, and the
\* response is 500 with the message of the error caught
Catch ==
    /\ pc = "catch"
    /\ \E threw \in BOOLEAN :
           calls' = Append(calls, [call |-> "saveSummary", threw |-> threw])
    /\ ret' = Reply(500, FALSE, caught)
    /\ pc' = "returned"
    /\ UNCHANGED <<engineVars, args, caught>>

RouteNext ==
    \/ GetCandidates
    \/ Save
    \/ ValidateManual
    \/ Filter
    \/ Place
    \/ Succeed
    \/ Catch

RouteSpec == RouteInit /\ [][RouteNext]_vars

-----------------------------------------------------------------------------
(* Vocabulary of the properties.                                           *)

Range(f) == {f[k] : k \in DOMAIN f}

\* the cell a placement covers at offset i along its direction
CellOf(p, i) == <<CellX(p.startX, p.direction, i), CellY(p.startY, p.direction, i)>>

Offsets(p) == 0..(Len(p.clueItem.graphemes) - 1)

CoveredCells(p) == {CellOf(p, i) : i \in Offsets(p)}

\* the cells just before the start and just after the end, along the word
CellBefore(p) == CellOf(p, -1)
CellAfter(p) == CellOf(p, Len(p.clueItem.graphemes))

\* the two cells beside c, across the direction of a word
SideCells(c, direction) ==
    IF direction = "ACROSS" THEN {<<c[1], c[2] - 1>>, <<c[1], c[2] + 1>>}
    ELSE {<<c[1] - 1, c[2]>>, <<c[1] + 1, c[2]>>}

\* empty or outside the grid g
IsFree(g, c) == c \notin DOMAIN g \/ g[c].grapheme = NoGrapheme

PlacementWithId(ps, id) == ps[CHOOSE k \in 1..Len(ps) : ps[k].wordId = id]

Done == pc = "done"

-----------------------------------------------------------------------------
(* C1.  Two calls of generateCrossword with the same clues, width, height  *)
(* and (given) seed return the same result.  Stated on the second call of  *)
(* SpecRerun; the retry attempts reseed from Date.now(), so this fails.    *)
C1_SameSeedSameResult ==
    (run = 2 /\ Done /\ seed # NoSeed) => result = firstResult

-----------------------------------------------------------------------------
(* C2.  For every placed word and every offset i the covered cell holds    *)
(* graphemes[i] of the word (graphemes compared as the engine compares     *)
(* them, compareGraphemes) and lists the word's id; so all the words of a  *)
(* shared cell agree on its grapheme.  In every engine state, and in the   *)
(* returned puzzle after the crop.                                         *)
CellConsistent(g, ps) ==
    /\ \A k \in 1..Len(ps) : \A i \in Offsets(ps[k]) :
           LET c == CellOf(ps[k], i)
           IN /\ c \in DOMAIN g
              /\ compareGraphemes(g[c].grapheme, ps[k].clueItem.graphemes[i + 1])
              /\ ps[k].wordId \in Range(g[c].wordIds)
    /\ \A c \in DOMAIN g : \A id1, id2 \in Range(g[c].wordIds) :
           LET p1 == PlacementWithId(ps, id1)
               p2 == PlacementWithId(ps, id2)
           IN compareGraphemes(
                  p1.clueItem.graphemes[(c[1] - p1.startX) + (c[2] - p1.startY) + 1],
                  p2.clueItem.graphemes[(c[1] - p2.startX) + (c[2] - p2.startY) + 1])

C2_CellConsistency ==
    /\ CellConsistent(grid, placements)
    /\ Done => CellConsistent(result.grid, result.placements)

C2_Witness ==
    /\ Done
    /\ \E c \in DOMAIN result.grid : Len(result.grid[c].wordIds) > 1

-----------------------------------------------------------------------------
(* C3.  In every grid state of the engine, a filled cell that belongs to   *)
(* exactly one word has both cells beside it (across that word's           *)
(* direction) empty or outside the grid.                                   *)
C3_NoParallelTouch ==
    \A c \in DOMAIN grid :
        Len(grid[c].wordIds) = 1 =>
            \A s \in SideCells(c, PlacementWithId(placements, grid[c].wordIds[1]).direction) :
                IsFree(grid, s)

C3_Witness ==
    /\ Len(placements) >= 3
    /\ \E c \in DOMAIN grid : Len(grid[c].wordIds) = 1

-----------------------------------------------------------------------------
(* C4.  In the returned puzzle the cell before the start and the cell      *)
(* after the end of every placed word are empty or outside the grid (also  *)
(* after the words placed later).  A later word that runs over an earlier  *)
(* one in the same direction breaks it.                                    *)
C4_EndsStayClear ==
    Done => \A k \in 1..Len(result.placements) :
                /\ IsFree(result.grid, CellBefore(result.placements[k]))
                /\ IsFree(result.grid, CellAfter(result.placements[k]))

-----------------------------------------------------------------------------
(* C5.  Every cell of a committed placement is inside the engine grid,     *)
(* every cell of a returned placement is inside the returned grid, and a   *)
(* word with more graphemes than both width and height is never placed and *)
(* is returned as unplaced.                                                *)
TooLong(clue) == Len(clue.graphemes) > width /\ Len(clue.graphemes) > height

C5_InBounds ==
    /\ \A k \in 1..Len(placements) :
           /\ CoveredCells(placements[k]) \subseteq (0..(width - 1)) \X (0..(height - 1))
           /\ ~TooLong(placements[k].clueItem)
    /\ Done =>
           /\ \A k \in 1..Len(result.placements) :
                  /\ CoveredCells(result.placements[k])
                         \subseteq (0..(result.gridWidth - 1)) \X (0..(result.gridHeight - 1))
                  /\ ~TooLong(result.placements[k].clueItem)
           /\ \A i \in 1..Len(clues) :
                  TooLong(clues[i]) => clues[i] \in Range(result.unplacedWords)

C5_Witness ==
    /\ Done
    /\ Len(result.placements) >= 2
    /\ \E i \in 1..Len(clues) : TooLong(clues[i])

-----------------------------------------------------------------------------
(* C6.  No two placed words start at the same cell in the same direction;  *)
(* two placed words that start at the same cell run in orthogonal          *)
(* directions and have the same first grapheme.                            *)
C6_StartCells ==
    \A j, k \in 1..Len(placements) :
        (j # k /\ placements[j].startX = placements[k].startX
               /\ placements[j].startY = placements[k].startY) =>
            /\ placements[j].direction # placements[k].direction
            /\ compareGraphemes(placements[j].clueItem.graphemes[1],
                                placements[k].clueItem.graphemes[1])

C6_Witness ==
    \E j, k \in 1..Len(placements) :
        /\ j # k
        /\ placements[j].startX = placements[k].startX
        /\ placements[j].startY = placements[k].startY

-----------------------------------------------------------------------------
-----------------------------------------------------------------------------
(* C8.  When no word is placed in any attempt the result is a grid of the  *)
(* original width and height with every cell empty, no placement, and      *)
(* every input clue among the unplaced words.                              *)
C8_NothingPlaced ==
    (Done /\ Len(bestResult.placements) = 0) =>
        /\ result.gridWidth = width
        /\ result.gridHeight = height
        /\ DOMAIN result.grid = (0..(width - 1)) \X (0..(height - 1))
        /\ \A c \in DOMAIN result.grid : result.grid[c] = EmptyCell
        /\ result.placements = <<>>
        /\ Len(result.unplacedWords) = Len(clues)
        /\ \A i \in 1..Len(clues) : clues[i] \in Range(result.unplacedWords)

C8_Witness ==
    /\ Done
    /\ attempts = retryAttempts
    /\ Len(clues) >= 2
    /\ Len(result.placements) = 0

-----------------------------------------------------------------------------
(* C9.  A word that shares no grapheme with any other input word is placed *)
(* only as the first word of an attempt (wordId 1).  As claimed: of two    *)
(* words without a common grapheme exactly one is placed.  As amended: at  *)
(* most one is placed, and one is placed exactly when one of the two has   *)
(* at most width graphemes; the words not placed are returned as unplaced. *)
CommonGrapheme(a, b) ==
    \E i \in 1..Len(a.graphemes), j \in 1..Len(b.graphemes) :
        normalizeNFC(a.graphemes[i]) = normalizeNFC(b.graphemes[j])

Isolated(clue) ==
    \A i \in 1..Len(clues) : clues[i].ref # clue.ref => ~CommonGrapheme(clues[i], clue)

TwoUnrelatedWords == Len(clues) = 2 /\ ~CommonGrapheme(clues[1], clues[2])

IsolatedOnlyFirst ==
    /\ \A k \in 1..Len(placements) :
           Isolated(placements[k].clueItem) => placements[k].wordId = 1
    /\ Done => \A k \in 1..Len(result.placements) :
                   Isolated(result.placements[k].clueItem) => result.placements[k].wordId = 1

C9_ExactlyOneOfTwo ==
    /\ IsolatedOnlyFirst
    /\ (Done /\ TwoUnrelatedWords) =>
           (Len(result.placements) = 1 /\ Len(result.unplacedWords) = 1)

C9_AtMostOneOfTwo ==
    /\ IsolatedOnlyFirst
    /\ (Done /\ TwoUnrelatedWords) =>
           /\ Len(result.placements) <= 1
           /\ Len(result.placements) = 1
                  <=> (\E i \in 1..2 : Len(clues[i].graphemes) <= width)
           /\ \A i \in 1..2 :
                  clues[i] \in Range(result.unplacedWords)
                      <=> (\A k \in 1..Len(result.placements) :
                               result.placements[k].clueItem # clues[i])

\* of two unrelated words the first of the sorted order is too long for the
\* grid and the second is placed in its stead, as word 1
C9_Witness ==
    /\ Done
    /\ TwoUnrelatedWords
    /\ Len(result.placements) = 1
    /\ result.placements[1].clueItem = sortedClues[2]
    /\ result.unplacedWords = <<sortedClues[1]>>

-----------------------------------------------------------------------------
(* C10.  generatePuzzle terminates; it runs the default attempt and then r *)
(* retries with 0 <= r <= retryAttempts; a retry starts only while the     *)
(* best placed / requested ratio so far is below 0.6.  The ratio is 0 when *)
(* nothing was requested, as stats.fillRatio has it.                       *)
BestBelow60 == Len(clues) = 0 \/ 10 * Len(bestResult.placements) < 6 * Len(clues)

C10_RetryLoop ==
    /\ <>Done
    /\ [](attempts \in 0..retryAttempts)
    /\ [][attempts' # attempts =>
              /\ attempts' = attempts + 1
              /\ attempts < retryAttempts
              /\ BestBelow60
              /\ run' = run]_vars
    /\ [](Done => (attempts = retryAttempts \/ ~BestBelow60))

\* the loop stopped before its last retry because a retry reached 0.6
C10_Witness ==
    /\ Done
    /\ attempts > 0
    /\ attempts < retryAttempts

-----------------------------------------------------------------------------
(* C11.  The returned result is the attempt with the most placed words     *)
(* among the attempts that were run, the earliest of them on a tie: its    *)
(* placements (words, directions, ids, relative positions) and its         *)
(* unplaced list are those that attempt returned, whatever later retries   *)
(* did to the engine's grid, placements and start records.                 *)
MostWords == Max({Len(history[i].placements) : i \in 1..Len(history)})

EarliestBest ==
    history[Min({i \in 1..Len(history) : Len(history[i].placements) = MostWords})]

SamePlacementsUpToShift(ps, qs) ==
    /\ Len(ps) = Len(qs)
    /\ \A k \in 1..Len(ps) :
           /\ ps[k].wordId = qs[k].wordId
           /\ ps[k].clueItem = qs[k].clueItem
           /\ ps[k].direction = qs[k].direction
           /\ ps[k].placed = qs[k].placed
           /\ ps[k].startX - ps[1].startX = qs[k].startX - qs[1].startX
           /\ ps[k].startY - ps[1].startY = qs[k].startY - qs[1].startY

C11_BestAttemptReturned ==
    /\ (pc = "loop" \/ Done) => bestResult = EarliestBest
    /\ Done =>
           /\ Len(history) = attempts + 1
           /\ SamePlacementsUpToShift(result.placements, EarliestBest.placements)
           /\ result.unplacedWords = EarliestBest.unplacedWords

\* the first retry improved on the default attempt and the second retry, which
\* refilled the engine with another layout of as many words, was not taken
C11_Witness ==
    /\ Done
    /\ Len(history) = 3
    /\ Len(history[1].placements) < Len(history[2].placements)
    /\ Len(history[3].placements) = Len(history[2].placements)
    /\ history[3].placements # history[2].placements
    /\ placements = history[3].placements

-----------------------------------------------------------------------------
(* C12.  The returned puzzle carries the warning "Grid too constrained:    *)
(* only P/R words placed (N%)." exactly when placed / requested, after all *)
(* retries, is below 0.4, with P the placed words, R the requested words   *)
(* and N the rounded percentage; the placements are returned all the same. *)
(* The ratio is 0 when nothing was requested, as stats.fillRatio has it.   *)
C12_WarningBelow40 ==
    Done =>
        LET P == Len(bestResult.placements)
            R == Len(clues)
        IN /\ (result.warning # Undefined) <=> (R = 0 \/ 10 * P < 4 * R)
           /\ result.warning # Undefined =>
                  /\ result.warning.placed = P
                  /\ result.warning.requested = R
                  /\ IF R = 0 THEN result.warning.percent = 0
                     ELSE /\ 2 * R * result.warning.percent <= 200 * P + R
                          /\ 200 * P + R < 2 * R * (result.warning.percent + 1)
           /\ Len(result.placements) = P
           /\ result.stats.placedWords = P

\* a warning on a puzzle that still has a word in it
C12_Witness ==
    /\ Done
    /\ result.warning # Undefined
    /\ Len(result.placements) >= 1

-----------------------------------------------------------------------------
(* C13.  For a single clue whose word fits the width, the returned puzzle  *)
(* has exactly one placement, placed, ACROSS, with startY the centre row   *)
(* floor(height / 2).  The crop moves the word to row 0, so this fails.    *)
SingleFittingClue == Len(clues) = 1 /\ Len(clues[1].graphemes) <= width

C13_SingleClueCentreRow ==
    (Done /\ SingleFittingClue) =>
        /\ Len(result.placements) = 1
        /\ result.placements[1].placed
        /\ result.placements[1].direction = "ACROSS"
        /\ result.placements[1].startY = height \div 2

-----------------------------------------------------------------------------
(* C14.  In every returned puzzle the placement at list position k (from   *)
(* 1) has wordId k, so the ids are exactly 1..number of placed words; the  *)
(* same holds of the engine's list in every attempt, whatever ids earlier  *)
(* attempts handed out.                                                    *)
IdsInOrder(ps) == \A k \in 1..Len(ps) : ps[k].wordId = k

C14_WordIdsInCommitOrder ==
    /\ IdsInOrder(placements)
    /\ wordIdCounter = Len(placements)
    /\ Done => IdsInOrder(result.placements)

\* the returned attempt is a retry that ran after an attempt that had
\* handed out more ids than the retry's first commit
C14_Witness ==
    /\ Done
    /\ Len(history) >= 2
    /\ Len(history[1].placements) >= 1
    /\ bestResult # history[1]
    /\ Len(result.placements) >= 2

-----------------------------------------------------------------------------
(* C15.  Every word committed after the first word of an attempt runs      *)
(* across an already placed word and covers a cell of it where the two     *)
(* words have the same grapheme; so when exactly two words are returned    *)
(* one is ACROSS, the other DOWN, and they share a cell with two word ids. *)
Crosses(p, q) ==
    /\ p.direction # q.direction
    /\ \E i \in Offsets(p), j \in Offsets(q) :
           /\ CellOf(p, i) = CellOf(q, j)
           /\ normalizeNFC(p.clueItem.graphemes[i + 1])
                  = normalizeNFC(q.clueItem.graphemes[j + 1])

C15_LaterWordsCross ==
    /\ \A k \in 2..Len(placements) :
           \E j \in 1..(k - 1) : Crosses(placements[k], placements[j])
    /\ (Done /\ Len(result.placements) = 2) =>
           /\ {result.placements[1].direction, result.placements[2].direction}
                  = {"ACROSS", "DOWN"}
           /\ \E c \in DOMAIN result.grid :
                  /\ Len(result.grid[c].wordIds) = 2
                  /\ c \in CoveredCells(result.placements[1])
                  /\ c \in CoveredCells(result.placements[2])

\* two different words are returned, crossing
C15_Witness ==
    /\ Done
    /\ Len(result.placements) = 2
    /\ result.placements[1].clueItem.graphemes # result.placements[2].clueItem.graphemes

-----------------------------------------------------------------------------
(* C16.  The default attempt tries the words by intersection score (the    *)
(* number of other words with a grapheme in common) descending, then by    *)
(* grapheme count descending, then in input order; when the default        *)
(* attempt is the one returned, word 1 is the first word of that order     *)
(* that fits the empty grid.                                               *)
Score(clue) ==
    Cardinality({i \in 1..Len(clues) :
        /\ clues[i].ref # clue.ref
        /\ Range(clues[i].graphemes) \cap Range(clue.graphemes) # {}})

TriedBefore(a, b) ==
    \/ Score(a) > Score(b)
    \/ Score(a) = Score(b) /\ Len(a.graphemes) > Len(b.graphemes)
    \/ Score(a) = Score(b) /\ Len(a.graphemes) = Len(b.graphemes) /\ a.ref < b.ref

FitsEmptyGrid(clue) == Len(clue.graphemes) <= width

C16_DefaultOrder ==
    /\ pc # "constructed" =>
           /\ Range(sortedClues) = Range(clues)
           /\ Len(sortedClues) = Len(clues)
           /\ \A i, j \in 1..Len(sortedClues) :
                  i < j => TriedBefore(sortedClues[i], sortedClues[j])
    /\ (pc = "attempt" /\ ~randomize) => order = sortedClues
    /\ (Done /\ bestResult = history[1]) =>
           IF \E i \in 1..Len(sortedClues) : FitsEmptyGrid(sortedClues[i])
           THEN /\ Len(result.placements) >= 1
                /\ result.placements[1].wordId = 1
                /\ result.placements[1].clueItem =
                       sortedClues[Min({i \in 1..Len(sortedClues) :
                                            FitsEmptyGrid(sortedClues[i])})]
           ELSE result.placements = <<>>

\* the order differs from the input order, its first word does not fit, and
\* the default attempt is returned with a later word as word 1
C16_Witness ==
    /\ Done
    /\ bestResult = history[1]
    /\ sortedClues # clues
    /\ ~FitsEmptyGrid(sortedClues[1])
    /\ Len(result.placements) >= 2

-----------------------------------------------------------------------------
(* C17.  In applySuitabilityFilter, with s = min(gridWidth, gridHeight)    *)
(* and the intersection count of a word taken over all input words, the    *)
(* rule pass removes a word exactly when (count = 0 and more than 3        *)
(* graphemes) or (s <= 11 and more than s - 2 graphemes).                  *)
Filtered == pc = "filtered"

\* the number of other input words with a grapheme in common with words[i]
InputCount(i) ==
    Cardinality({j \in 1..Len(args.words) :
        /\ j # i
        /\ \E a \in Range(args.words[i].graphemes), b \in Range(args.words[j].graphemes) :
               normalizeNFC(a) = normalizeNFC(b)})

SmallerSide == Min({args.gridWidth, args.gridHeight})

C17_RulePass ==
    Filtered =>
        \A i \in 1..Len(args.words) :
            LET n == Len(args.words[i].graphemes)
            IN (args.words[i] \notin Range(ret.rulePassed)) <=>
                   \/ InputCount(i) = 0 /\ n > 3
                   \/ SmallerSide <= 11 /\ n > SmallerSide - 2

\* one call in which a short word without intersections passes, a longer one
\* without intersections is removed, and a word that has intersections is
\* removed for its length
C17_Witness ==
    /\ Filtered
    /\ \E i, j, k \in 1..Len(args.words) :
           /\ InputCount(i) = 0 /\ args.words[i] \in Range(ret.rulePassed)
           /\ InputCount(j) = 0 /\ args.words[j] \notin Range(ret.rulePassed)
           /\ InputCount(k) > 0 /\ args.words[k] \notin Range(ret.rulePassed)

-----------------------------------------------------------------------------
(* C18.  With cap(s) = 8 if s <= 7, 12 if s <= 10, 20 if s <= 15, 30 if    *)
(* s <= 20, else 40: the kept list never exceeds cap(s) words; when more   *)
(* than cap(s) words survive the rule pass exactly cap(s) are kept, no     *)
(* dropped word has a strictly higher intersection count than a kept word, *)
(* and among words with equal count the ones earlier in the input are      *)
(* kept.  As stated, the count is the one of the rule pass, taken over     *)
(* the input words; the code sorts by a count taken again over the words   *)
(* that survived the rule pass.                                            *)
Cap(s) ==
    IF s <= 7 THEN 8
    ELSE IF s <= 10 THEN 12
    ELSE IF s <= 15 THEN 20
    ELSE IF s <= 20 THEN 30
    ELSE 40

\* the positions in the input of the words that survived the rule pass, of
\* the words that were kept, and of the survivors that the cap dropped
Survivors == {i \in 1..Len(args.words) : args.words[i] \in Range(ret.rulePassed)}

Kept == {i \in 1..Len(args.words) : args.words[i] \in Range(ret.filteredWords)}

Dropped == Survivors \ Kept

OverCap == Len(ret.rulePassed) > Cap(SmallerSide)

\* words[i] and words[j] have a grapheme in common
Share(i, j) ==
    \E a \in Range(args.words[i].graphemes), b \in Range(args.words[j].graphemes) :
        normalizeNFC(a) = normalizeNFC(b)

\* the words at the positions of some, each as <<count, position>>, the count
\* being the number of other words of among with a grapheme in common
Counted(some, among) ==
    {<<Cardinality({j \in among : j # i /\ Share(i, j)}), i>> : i \in some}

\* the cap keeps the best words by the count, the earlier ones among equals
TopKept(dropped, kept) ==
    \A d \in dropped, k \in kept :
        /\ d[1] <= k[1]
        /\ d[1] = k[1] => k[2] < d[2]

\* the claim as stated: the count is the one over the input words
C18_CapByInputCount ==
    Filtered =>
        /\ Len(ret.filteredWords) <= Cap(SmallerSide)
        /\ OverCap =>
               /\ Len(ret.filteredWords) = Cap(SmallerSide)
               /\ TopKept(Counted(Dropped, 1..Len(args.words)),
                          Counted(Kept, 1..Len(args.words)))

\* the claim with the count taken over the survivors of the rule pass
C18_CapBySurvivorCount ==
    Filtered =>
        /\ Len(ret.filteredWords) <= Cap(SmallerSide)
        /\ OverCap =>
               /\ Len(ret.filteredWords) = Cap(SmallerSide)
               /\ \E survivors \in {Survivors} :
                      TopKept(Counted(Dropped, survivors), Counted(Kept, survivors))

\* a call in which the cap drops words, one of them with the count of a kept
\* word and one with a lower count than a kept word, and in which a survivor
\* had more intersections among the input words than among the survivors
C18_Witness ==
    /\ Filtered
    /\ OverCap
    /\ \E survivors \in {Survivors} :
           /\ \E d \in Counted(Dropped, survivors), k \in Counted(Kept, survivors) :
                  d[1] = k[1] /\ k[2] < d[2]
           /\ \E d \in Counted(Dropped, survivors), k \in Counted(Kept, survivors) :
                  d[1] < k[1]
           /\ Counted(survivors, survivors) # Counted(survivors, 1..Len(args.words))

-----------------------------------------------------------------------------
(* C19.  applySuitabilityFilter partitions its input: every input word     *)
(* appears in exactly one of filteredWords and removedWords, none lost and *)
(* none twice; filteredCount + |removedWords| = originalCount; the warning *)
(* "N word(s) removed due to low crossword suitability" is present exactly *)
(* when removedWords is not empty, and its N is |removedWords|.            *)
Occurrences(word, seq) == Cardinality({k \in 1..Len(seq) : seq[k] = word})

C19_Partition ==
    Filtered =>
        /\ \E output \in {ret.filteredWords \o ret.removedWords} :
               /\ Len(output) = Len(args.words)
               /\ \A i \in 1..Len(args.words) : Occurrences(args.words[i], output) = 1
        /\ ret.filteredCount = Len(ret.filteredWords)
        /\ ret.originalCount = Len(args.words)
        /\ ret.filteredCount + Len(ret.removedWords) = ret.originalCount
        /\ (ret.warning # Undefined) <=> (Len(ret.removedWords) > 0)
        /\ ret.warning # Undefined => ret.warning.removed = Len(ret.removedWords)

\* a call that removes words in the rule pass, drops others at the cap, keeps
\* some, and warns
C19_Witness ==
    /\ Filtered
    /\ Len(ret.rulePassed) < Len(args.words)
    /\ Len(ret.filteredWords) < Len(ret.rulePassed)
    /\ Len(ret.filteredWords) > 0
    /\ ret.warning # Undefined
    /\ ret.warning.removed >= 2

-----------------------------------------------------------------------------
(* C20.  validateManualPlacements fails fast: when some placement is       *)
(* invalid, checking stops at the first (lowest-index) invalid placement,  *)
(* the returned error list contains exactly that one (index, word, error)  *)
(* entry, and no puzzle is returned.  The code goes on to the next         *)
(* placement after an error, so the list holds one entry for every invalid *)
(* placement.                                                              *)
Validated == pc = "validated"

\* the cells of the placement at index i (from 0), each with its grapheme
ManualCells(i) ==
    LET p == args.placements[i + 1]
    IN {<<(IF p.direction = "DOWN" THEN p.row + k ELSE p.row),
          (IF p.direction = "ACROSS" THEN p.col + k ELSE p.col),
          p.word[k + 1]>> : k \in 0..(Len(p.word) - 1)}

\* two placements put different graphemes, as strings, on one cell
Clash(i, j) ==
    \E a \in ManualCells(i), b \in ManualCells(j) :
        a[1] = b[1] /\ a[2] = b[2] /\ a[3] # b[3]

\* the placement at index i has its clue item and lies inside the grid
WellFormed(i) ==
    /\ i + 1 <= Len(args.clueItems)
    /\ \A c \in ManualCells(i) :
           c[1] \in 0..(args.gridHeight - 1) /\ c[2] \in 0..(args.gridWidth - 1)

\* the placements that are accepted: well formed, and without a clash with an
\* accepted placement before them
Accepted[i \in 0..(MaxManual + 1)] ==
    /\ i < Len(args.placements)
    /\ WellFormed(i)
    /\ \A j \in 0..(i - 1) : Accepted[j] => ~Clash(i, j)

Invalid == {i \in 0..(Len(args.placements) - 1) : ~Accepted[i]}

\* the claim as stated: one entry, for the first invalid placement
C20_FailFast ==
    Validated /\ Invalid # {} =>
        /\ ~ret.valid
        /\ ret.puzzle = Undefined
        /\ Len(ret.errors) = 1
        /\ ret.errors[1].index = Min(Invalid)

\* one entry for every invalid placement, in the order of the placements, the
\* first for the lowest-index invalid placement; no puzzle is returned
C20_EveryInvalidReported ==
    Validated /\ Invalid # {} =>
        /\ ~ret.valid
        /\ ret.puzzle = Undefined
        /\ Len(ret.errors) = Cardinality(Invalid)
        /\ ret.errors[1].index = Min(Invalid)
        /\ \A k \in 1..Len(ret.errors) :
               /\ ret.errors[k].index \in Invalid
               /\ ret.errors[k].word = args.placements[ret.errors[k].index + 1].word
               /\ ret.errors[k].error # Null
               /\ k > 1 => ret.errors[k - 1].index < ret.errors[k].index

\* a call with a placement outside the grid, then an accepted placement, then
\* a placement that clashes with the accepted one
C20_Witness ==
    /\ Validated
    /\ Len(args.placements) = 3
    /\ Invalid = {0, 2}
    /\ WellFormed(2)
    /\ Len(ret.errors) = 2

-----------------------------------------------------------------------------
(* C21.  validateManualPlacements returns valid = true with a puzzle       *)
(* exactly when every placement lies inside the W x H grid and every cell  *)
(* it covers is empty or already holds the identical grapheme from an      *)
(* earlier placement; side-adjacent words, words touching end to end and   *)
(* parallel overlaps that agree are accepted.  On success every input word *)
(* is in placements with placed = true and wordId = index + 1,             *)
(* unplacedWords is empty and the grid keeps the requested W x H.  The     *)
(* graphemes of a placement are those of its clue item, so the statement   *)
(* is about the calls that hand over a clue item for every placement.      *)
EveryClueItem == Len(args.clueItems) = Len(args.placements)

ManualIndexes == 0..(Len(args.placements) - 1)

\* the placement at index i lies inside the grid
InsideGrid(i) ==
    \A c \in ManualCells(i) :
        c[1] \in 0..(args.gridHeight - 1) /\ c[2] \in 0..(args.gridWidth - 1)

\* the placements at i and j run in the same direction, in neighbouring lines,
\* with two cells side by side
SideAdjacent(i, j) ==
    /\ args.placements[i + 1].direction = args.placements[j + 1].direction
    /\ \E a \in ManualCells(i), b \in ManualCells(j) :
           IF args.placements[i + 1].direction = "ACROSS"
           THEN a[2] = b[2] /\ (a[1] = b[1] + 1 \/ b[1] = a[1] + 1)
           ELSE a[1] = b[1] /\ (a[2] = b[2] + 1 \/ b[2] = a[2] + 1)

\* the placement at j starts on the cell right after the end of the one at i,
\* in the same line and direction
EndToEnd(i, j) ==
    LET p == args.placements[i + 1]
        q == args.placements[j + 1]
    IN /\ p.direction = q.direction
       /\ IF p.direction = "ACROSS"
          THEN q.row = p.row /\ q.col = p.col + Len(p.word)
          ELSE q.col = p.col /\ q.row = p.row + Len(p.word)

C21_ValidIffCompatible ==
    Validated /\ EveryClueItem =>
        /\ ret.valid <=>
               /\ \A i \in ManualIndexes : InsideGrid(i)
               /\ \A i, j \in ManualIndexes : ~Clash(i, j)
        /\ ret.valid <=> ret.puzzle # Undefined
        /\ ret.valid =>
               /\ ret.errors = <<>>
               /\ Len(ret.puzzle.placements) = Len(args.placements)
               /\ \A i \in ManualIndexes :
                      LET placed == ret.puzzle.placements[i + 1]
                      IN /\ placed.placed
                         /\ placed.wordId = i + 1
                         /\ placed.clueItem = args.clueItems[i + 1]
                         /\ placed.startX = args.placements[i + 1].col
                         /\ placed.startY = args.placements[i + 1].row
                         /\ placed.direction = args.placements[i + 1].direction
               /\ ret.puzzle.unplacedWords = <<>>
               /\ ret.puzzle.gridWidth = args.gridWidth
               /\ ret.puzzle.gridHeight = args.gridHeight
               /\ DOMAIN ret.puzzle.grid =
                      (0..(args.gridHeight - 1)) \X (0..(args.gridWidth - 1))
               /\ \A i \in ManualIndexes : \A c \in ManualCells(i) :
                      /\ ret.puzzle.grid[<<c[1], c[2]>>].grapheme = c[3]
                      /\ i + 1 \in Range(ret.puzzle.grid[<<c[1], c[2]>>].wordIds)

\* an accepted call of three placements: the second touches the first end to
\* end, the third lies side by side with the first
C21_Witness ==
    /\ Validated
    /\ ret.valid
    /\ Len(args.placements) = 3
    /\ Len(args.placements[1].word) = 2
    /\ EndToEnd(0, 1)
    /\ SideAdjacent(0, 2)

\* an accepted call in which two words overlap in the same direction
C21_ParallelOverlap ==
    /\ Validated
    /\ ret.valid
    /\ \E i, j \in ManualIndexes :
           /\ i < j
           /\ args.placements[i + 1].direction = args.placements[j + 1].direction
           /\ Len(args.placements[i + 1].word) = 2
           /\ \E a \in ManualCells(i), b \in ManualCells(j) : a[1] = b[1] /\ a[2] = b[2]

-----------------------------------------------------------------------------
(* C22.  The pieces returned by generatePolyomino partition the filled     *)
(* cells: every filled cell, with one blockId for each distinct (x, y),    *)
(* belongs to exactly one piece, no piece contains a cell that is not      *)
(* filled, and the cells of every piece are connected under 4-adjacency.   *)
Partitioned == pc = "partitioned"

\* the cells the placements of the call fill
Filled ==
    UNION {{<<(IF args.placements[k].direction = "ACROSS"
               THEN args.placements[k].startX + i ELSE args.placements[k].startX),
              (IF args.placements[k].direction = "DOWN"
               THEN args.placements[k].startY + i ELSE args.placements[k].startY)>> :
               i \in 0..(Len(args.placements[k].clueItem.graphemes) - 1)} :
           k \in 1..Len(args.placements)}

Pieces == 1..Len(ret.pieces)

\* the grid cells of the piece at position k of the result
CellsOfPiece(k) ==
    {<<ret.pieces[k].correctX + c.relX, ret.pieces[k].correctY + c.relY>> :
        c \in Range(ret.pieces[k].cells)}

SizeOfPiece(k) == Len(ret.pieces[k].cells)

Adjacent4(a, b) ==
    \/ a[1] = b[1] /\ (a[2] = b[2] + 1 \/ b[2] = a[2] + 1)
    \/ a[2] = b[2] /\ (a[1] = b[1] + 1 \/ b[1] = a[1] + 1)

\* the cells of S that can be reached from the cells seen, step by step
RECURSIVE ReachFrom(_, _)
ReachFrom(seen, S) ==
    LET next == seen \cup {c \in S : \E d \in seen : Adjacent4(c, d)}
    IN IF next = seen THEN seen ELSE ReachFrom(next, S)

Connected4(S) == S = {} \/ ReachFrom({CHOOSE c \in S : TRUE}, S) = S

\* the blockIds of all cells of all pieces, as a bag would count them
BlockIdCount(b) ==
    Cardinality({<<k, j>> \in Pieces \X (1..Cardinality(Filled)) :
                    j <= Len(ret.pieces[k].cells) /\ ret.pieces[k].cells[j].blockId = b})

\* the piece at position k is the plus pentomino
IsPlus(k) ==
    \E c \in CellsOfPiece(k) :
        CellsOfPiece(k) =
            {c, <<c[1], c[2] - 1>>, <<c[1] + 1, c[2]>>, <<c[1], c[2] + 1>>, <<c[1] - 1, c[2]>>}

C22_PiecesPartitionFilledCells ==
    Partitioned =>
        /\ \A cell \in Filled :
               Cardinality({k \in Pieces : cell \in CellsOfPiece(k)}) = 1
        /\ \A k \in Pieces :
               /\ CellsOfPiece(k) \subseteq Filled
               /\ Cardinality(CellsOfPiece(k)) = SizeOfPiece(k)
               /\ SizeOfPiece(k) > 0
               /\ Connected4(CellsOfPiece(k))
        /\ \A b \in 0..(Cardinality(Filled) - 1) : BlockIdCount(b) = 1

\* a call that made the plus pentomino, grew other pieces around it and merged
\* an undersized piece into a neighbour, which then exceeds maxPieceSize
C22_Witness ==
    /\ Partitioned
    /\ Len(ret.pieces) >= 3
    /\ \E k \in Pieces : IsPlus(k)
    /\ \E k \in Pieces : ~IsPlus(k) /\ SizeOfPiece(k) > args.config.maxPieceSize

-----------------------------------------------------------------------------
(* C23.  Every piece returned by generatePolyomino has a size in           *)
(* [minPieceSize, maxPieceSize], or has exactly 5 cells while              *)
(* allowSingleCrossPentomino is enabled and it is the only 5-cell piece of *)
(* the puzzle.                                                             *)
C23_PieceSizeBounds ==
    Partitioned =>
        \A k \in Pieces :
            \/ /\ SizeOfPiece(k) >= args.config.minPieceSize
               /\ SizeOfPiece(k) <= args.config.maxPieceSize
            \/ /\ SizeOfPiece(k) = 5
               /\ args.config.allowSingleCrossPentomino
               /\ \A j \in Pieces : SizeOfPiece(j) = 5 => j = k

\* the default configuration and one word of five cells: a piece of five
C23_DefaultConfigFiveCells ==
    /\ Partitioned
    /\ args.config = DEFAULT_POLYOMINO_CONFIG
    /\ Len(args.placements) = 1
    /\ \E k \in Pieces : SizeOfPiece(k) = 5
    /\ ~ret.validation.valid

-----------------------------------------------------------------------------
(* C24.  For every piece returned by generatePolyomino the anchor          *)
(* (correctX, correctY) is the topmost-then-leftmost cell of the piece and *)
(* every cell of the piece has relX >= 0 and relY >= 0 relative to that    *)
(* anchor, for every piece shape including the plus pentomino.  The anchor *)
(* is the leftmost cell of the top row only, so a cell of a lower row can  *)
(* lie to its left.                                                        *)
\* the anchor is a cell of the piece, in its top row, the leftmost one there
AnchorTopLeft(k) ==
    /\ \E c \in Range(ret.pieces[k].cells) : c.relX = 0 /\ c.relY = 0
    /\ \A c \in Range(ret.pieces[k].cells) :
           c.relY > 0 \/ (c.relY = 0 /\ c.relX >= 0)

\* the claim as stated
C24_NoNegativeOffsets ==
    Partitioned =>
        \A k \in Pieces :
            /\ AnchorTopLeft(k)
            /\ \A c \in Range(ret.pieces[k].cells) : c.relX >= 0 /\ c.relY >= 0

\* relY is never negative, relX is never negative in the anchor's row, and
\* relX is above minus the size of the piece
C24_AnchorTopmostThenLeftmost ==
    Partitioned =>
        \A k \in Pieces :
            /\ AnchorTopLeft(k)
            /\ \A c \in Range(ret.pieces[k].cells) :
                   /\ c.relY >= 0
                   /\ c.relX > -SizeOfPiece(k)

\* a call that returns the plus pentomino, whose left arm has relX = -1, and a
\* piece whose cells all have relX >= 0
C24_Witness ==
    /\ Partitioned
    /\ \E k \in Pieces :
           /\ IsPlus(k)
           /\ \E c \in Range(ret.pieces[k].cells) : c.relX = -1 /\ c.relY = 1
    /\ \E k \in Pieces :
           /\ SizeOfPiece(k) >= 2
           /\ \A c \in Range(ret.pieces[k].cells) : c.relX >= 0

-----------------------------------------------------------------------------
(* C25.  serializeToPayload emits the pairs ans{n}/question{n} with n      *)
(* running 1..m without gaps, in wordId order: when removeUnplacedWords is *)
(* true only the placed words are emitted and the key                      *)
(* removeUnplacedWords=true is appended; when false the placed words are   *)
(* followed by all unplaced words (m = placed + unplaced) and no           *)
(* removeUnplacedWords key is emitted.                                     *)
Serialized == pc = "serialized"

\* the number of key=value pairs of the payload, and the pair at position i
PairCount == (Len(ret) + 1) \div 4

PairKey(i) == ret[4 * i - 3]

PairValue(i) == ret[4 * i - 1].percentEncoded

\* the clue items of the placed words by ascending wordId, and after them the
\* unplaced words unless they are removed
PlacedByWordId ==
    [n \in 1..Len(args.puzzle.placements) |->
        (CHOOSE p \in Range(args.puzzle.placements) : p.wordId = n).clueItem]

EmittedClues ==
    IF args.removeUnplacedWords THEN PlacedByWordId
    ELSE PlacedByWordId \o args.puzzle.unplacedWords

\* a grapheme as the payload writes it
InBraces(grapheme) ==
    IF Len(grapheme) > 1 THEN <<Cp.open>> \o grapheme \o <<Cp.close>> ELSE grapheme

C25_PayloadPairs ==
    Serialized =>
        LET m == Len(EmittedClues)
        IN /\ PairCount = 2 * m + (IF args.removeUnplacedWords THEN 1 ELSE 0)
           /\ Len(ret) = IF PairCount = 0 THEN 0 ELSE 4 * PairCount - 1
           /\ \A i \in 1..PairCount : ret[4 * i - 2] = "="
           /\ \A i \in 1..(PairCount - 1) : ret[4 * i] = "&"
           /\ \A n \in 1..m :
                  /\ PairKey(2 * n - 1) = <<"ans", n>>
                  /\ PairValue(2 * n - 1) =
                         Join([k \in 1..Len(EmittedClues[n].graphemes) |->
                                  InBraces(EmittedClues[n].graphemes[k])])
                  /\ PairKey(2 * n) = <<"question", n>>
                  /\ PairValue(2 * n) = EmittedClues[n].clueText
           /\ args.removeUnplacedWords =>
                  /\ PairKey(PairCount) = <<"removeUnplacedWords">>
                  /\ PairValue(PairCount) = "true"
           /\ \A i \in 1..PairCount :
                  PairKey(i) = <<"removeUnplacedWords">> =>
                      args.removeUnplacedWords /\ i = PairCount

\* a payload that keeps the unplaced words: two placed words, then two
\* unplaced ones, numbered 1 to 4
C25_Witness ==
    /\ Serialized
    /\ ~args.removeUnplacedWords
    /\ Len(args.puzzle.placements) = 2
    /\ Len(args.puzzle.unplacedWords) = 2
    /\ args.puzzle.unplacedWords[1] # args.puzzle.unplacedWords[2]
    /\ PairCount = 8
    /\ PairKey(7) = <<"ans", 4>>

-----------------------------------------------------------------------------
(* C26.  For every answer accepted by the system, decoding the encoded     *)
(* answer (each {...} region is one grapheme, every remaining code point   *)
(* is one grapheme) yields exactly the answer's original grapheme          *)
(* sequence, where encoding wraps a grapheme in braces if and only if it   *)
(* has more than one code point.                                           *)
Encoded == pc = "encoded"

AnswerAccepted == Encoded /\ ret.clueItem # Null

\* the decoding: a region from an opening brace to the next closing brace is
\* one grapheme, every other code point is one grapheme
RECURSIVE Decode(_)
Decode(encoded) ==
    IF encoded = <<>> THEN <<>>
    ELSE LET closes == {j \in 2..Len(encoded) : encoded[j] = Cp.close}
         IN IF encoded[1] = Cp.open /\ closes # {}
            THEN <<SubSeq(encoded, 2, Min(closes) - 1)>>
                 \o Decode(SubSeq(encoded, Min(closes) + 1, Len(encoded)))
            ELSE <<<<encoded[1]>>>> \o Decode(Tail(encoded))

\* the encoded answer: each grapheme as it is, in braces when it has more than
\* one code point
Wrapped(graphemes) ==
    Join([k \in 1..Len(graphemes) |->
             IF Len(graphemes[k]) > 1 THEN <<Cp.open>> \o graphemes[k] \o <<Cp.close>>
             ELSE graphemes[k]])

C26_DecodeRoundTrip ==
    AnswerAccepted =>
        /\ ret.encodedAnswer = Wrapped(ret.clueItem.graphemes)
        /\ Decode(ret.encodedAnswer) = ret.clueItem.graphemes

\* the round trip for the answers of the ai mode, which are cleaned
C26_RoundTripOfCleanedAnswers ==
    AnswerAccepted /\ args.mode = "ai" =>
        /\ ret.encodedAnswer = Wrapped(ret.clueItem.graphemes)
        /\ Decode(ret.encodedAnswer) = ret.clueItem.graphemes

\* a manual word "{A}": three graphemes, decoded as one
C26_ManualWordInBraces ==
    /\ AnswerAccepted
    /\ args.mode = "manual"
    /\ args.answer = <<Cp.open, Cp.A, Cp.close>>
    /\ Len(ret.clueItem.graphemes) = 3
    /\ Decode(ret.encodedAnswer) = <<<<Cp.A>>>>

-----------------------------------------------------------------------------
(* C27.  On every path on which the generate-crossword handler ends in a   *)
(* generation failure (response success = false), a summary.json write for *)
(* that crosswordId is attempted before the response is returned.  The two *)
(* bad requests (ai mode without inputType and inputValue, a manual mode   *)
(* without words) are answered success = false with nothing written.       *)
Returned == pc = "returned"

Attempted(call) == \E k \in 1..Len(calls) : calls[k].call = call

BadRequest ==
    \/ args.mode = "ai" /\ ~args.hasInput
    \/ args.mode # "ai" /\ Len(args.words) = 0

C27_SummaryOnEveryFailure ==
    (Returned /\ ~ret.success) => Attempted("saveSummary")

\* a failure other than a bad request ends with an attempt to write
\* summary.json, the handler's last call; a bad request calls nothing
C27_SummaryOnGenerationFailure ==
    (Returned /\ ~ret.success) =>
        IF BadRequest
        THEN ret.code = 400 /\ calls = <<>>
        ELSE /\ Len(calls) >= 1
             /\ calls[Len(calls)].call = "saveSummary"
             /\ caught # Null <=> ret.error = caught
             /\ caught # Null => ret.code = 500

\* grid.json could not be written: the catch block tries summary.json, which
\* fails as well, and the response is the failure
C27_Witness ==
    /\ Returned
    /\ ~ret.success
    /\ caught = Failure("saveGrid")
    /\ calls[Len(calls)] = [call |-> "saveSummary", threw |-> TRUE]
    /\ Attempted("generateCrossword")

\* a bad request answered with nothing written
C27_BadRequestNoSummary ==
    /\ Returned
    /\ ~ret.success
    /\ BadRequest
    /\ ~Attempted("saveSummary")

-----------------------------------------------------------------------------
(* C28.  When the suitability filter keeps zero words (ai or manual_basic  *)
(* mode), the handler returns success = false with error "No words passed  *)
(* filter.", the placement engine is never invoked, and no placements,     *)
(* grid or meta artifact is written for that request.  When filtered.json  *)
(* or summary.json cannot be written the error is that failure instead.    *)

\* the word at position i of the request shares no grapheme with another word
Alone(i) ==
    \A j \in 1..Len(args.words) :
        j # i => \A a \in Range(args.words[i].graphemes),
                    b \in Range(args.words[j].graphemes) :
                     normalizeNFC(a) # normalizeNFC(b)

\* every word of the request is one the filter removes
NoneSuitable ==
    \A i \in 1..Len(args.words) :
        LET len == Len(args.words[i].graphemes)
            side == Min({args.grid[1], args.grid[2]})
        IN (Alone(i) /\ len > 3) \/ (side <= 11 /\ len > side - 2)

\* the handler came to the filter and the filter kept nothing
FilterKeptNothing ==
    /\ Returned
    /\ args.mode # "manual_advanced"
    /\ Attempted("saveFiltered")
    /\ NoneSuitable

NothingPlaced ==
    /\ ~ret.success
    /\ ~Attempted("generateCrossword")
    /\ ~Attempted("savePlacements")
    /\ ~Attempted("saveGrid")
    /\ ~Attempted("saveMeta")

C28_FilteredNotWritten ==
    /\ FilterKeptNothing
    /\ ret.error = Failure("saveFiltered")

-----------------------------------------------------------------------------
(* C29.  In every grid state of attemptPlacement, whatever the order of    *)
(* the clues (sorted or shuffled) and the tie-break mode, two placed words *)
(* that share a cell run in perpendicular directions; so no cell belongs   *)
(* to more than two words and no placed word overlaps a parallel word.  A  *)
(* word that crosses one placed word and runs over another one in its own  *)
(* direction breaks it.                                                    *)
ShareCell(p, q) == CoveredCells(p) \cap CoveredCells(q) # {}

C29_SharedCellsPerpendicular ==
    /\ \A j, k \in 1..Len(placements) :
           (j < k /\ ShareCell(placements[j], placements[k])) =>
               placements[j].direction # placements[k].direction
    /\ \A c \in DOMAIN grid : Len(grid[c].wordIds) <= 2

\* the same in the default attempt alone
C29_DefaultAttemptPerpendicular ==
    ~randomize => C29_SharedCellsPerpendicular

\* two words of one direction on common cells, in a retry
C29_ParallelOverlap ==
    /\ randomize
    /\ \E j, k \in 1..Len(placements) :
           /\ j < k
           /\ ShareCell(placements[j], placements[k])
           /\ placements[j].direction = placements[k].direction
    /\ \E c \in DOMAIN grid : Len(grid[c].wordIds) = 3

-----------------------------------------------------------------------------
(* C30.  In the default (non-retry) attempt the first committed word       *)
(* starts, before the crop, at (floor((W - len) / 2), floor(H / 2)) and is *)
(* ACROSS whenever the ACROSS orientation passes validation there; for a   *)
(* single-word input whose word is committed the returned (cropped) puzzle *)
(* is len cells wide and 1 cell high with that word at (0, 0), wordId 1.   *)
AcrossFitsEmptyGrid(len) ==
    LET x == (width - len) \div 2
        y == height \div 2
    IN x >= 0 /\ x + len <= width /\ y >= 0 /\ y < height

FirstOfDefaultAttempt(ps) ==
    Len(ps) >= 1 =>
        LET len == Len(ps[1].clueItem.graphemes)
        IN /\ ps[1].startX = (width - len) \div 2
           /\ ps[1].startY = height \div 2
           /\ AcrossFitsEmptyGrid(len) => ps[1].direction = "ACROSS"

-----------------------------------------------------------------------------
(* C31.  In the default (non-retry) attempt, for every word after the      *)
(* first, the committed placement is a valid candidate whose distToCenter  *)
(* |startX + len/2 - W/2| + |startY + len/2 - H/2| is the least among the  *)
(* valid candidates made from the intersections with the placed words,     *)
(* the earliest enumerated one of these; the word goes to unplaced if and  *)
(* only if no candidate passes validation.                                 *)

\* the positions that lay the clue across a placed word, one of its graphemes
\* on an equal grapheme of that word, in the order they are enumerated
Alignments(clue) ==
    LET intersections == findAllIntersections(clue)
    IN [k \in 1..Len(intersections) |->
           LET p == intersections[k].existingPlacement
               j == intersections[k].newGraphemeIndex
           IN IF p.direction = "ACROSS"
              THEN [startX |-> intersections[k].gridX, startY |-> intersections[k].gridY - j,
                    direction |-> "DOWN"]
              ELSE [startX |-> intersections[k].gridX - j, startY |-> intersections[k].gridY,
                    direction |-> "ACROSS"]]

ValidAlignments(clue) ==
    SelectSeq(Alignments(clue),
              LAMBDA c : validatePlacement(clue, c.startX, c.startY, c.direction))

\* twice the distance to the centre of a word of len graphemes from (x, y)
TwiceDist(len, x, y) ==
    (IF 2 * x + len >= width THEN 2 * x + len - width ELSE width - 2 * x - len)
        + (IF 2 * y + len >= height THEN 2 * y + len - height ELSE height - 2 * y - len)

\* the first of the nearest among the valid alignments
NearestFirst(clue, valid) ==
    LET len == Len(clue.graphemes)
        least == Min({TwiceDist(len, valid[k].startX, valid[k].startY) : k \in 1..Len(valid)})
        first == Min({k \in 1..Len(valid) :
                         TwiceDist(len, valid[k].startX, valid[k].startY) = least})
    IN valid[first]

\* attemptPlacement goes from one word of the default order to the next, a
\* word being placed already
LaterWordStep ==
    /\ pc = "attempt"
    /\ pc' = "attempt"
    /\ ~randomize
    /\ idx' = idx + 1
    /\ Len(placements) >= 1

C31_NearestValidCandidate ==
    [][LaterWordStep =>
          \E valid \in {ValidAlignments(order[idx])} :
              IF Len(valid) = 0
              THEN /\ placements' = placements
                   /\ grid' = grid
                   /\ unplaced' = Append(unplaced, order[idx])
              ELSE \E best \in {NearestFirst(order[idx], valid)} :
                       /\ unplaced' = unplaced
                       /\ Len(placements') = Len(placements) + 1
                       /\ SubSeq(placements', 1, Len(placements)) = placements
                       /\ LET p == placements'[Len(placements')]
                          IN /\ p.clueItem = order[idx]
                             /\ p.startX = best.startX
                             /\ p.startY = best.startY
                             /\ p.direction = best.direction
                             /\ p.placed]_vars

\* a word has been placed after the first one, and the next word has valid
\* candidates at different distances from the centre, the nearest not the
\* first enumerated
C31_Witness ==
    /\ pc = "attempt"
    /\ ~randomize
    /\ Len(placements) >= 2
    /\ idx <= Len(order)
    /\ LET valid == ValidAlignments(order[idx])
       IN /\ Len(valid) >= 2
          /\ NearestFirst(order[idx], valid) # valid[1]

\* a word of the default attempt with alignments, none of them valid
C31_NoValidCandidate ==
    /\ pc = "attempt"
    /\ ~randomize
    /\ Len(placements) >= 1
    /\ idx <= Len(order)
    /\ Len(Alignments(order[idx])) >= 1
    /\ Len(ValidAlignments(order[idx])) = 0

-----------------------------------------------------------------------------
(* C32.  When allowSingleCrossPentomino is enabled and some cell with      *)
(* wordCount >= 2 has all four 4-neighbours filled, exactly one plus       *)
(* (that centre and its four neighbours) is reserved before the partition, *)
(* its five cells are assigned to no other piece, and at most one piece is *)
(* made this way; when the option is disabled no cells are reserved.       *)

\* the number of words of the call that write the cell
WordCount(cell) ==
    Cardinality({k \in 1..Len(args.placements) :
        \E i \in 0..(Len(args.placements[k].clueItem.graphemes) - 1) :
            cell = <<(IF args.placements[k].direction = "ACROSS"
                      THEN args.placements[k].startX + i ELSE args.placements[k].startX),
                     (IF args.placements[k].direction = "DOWN"
                      THEN args.placements[k].startY + i ELSE args.placements[k].startY)>>})

PlusAround(c) ==
    {c, <<c[1], c[2] - 1>>, <<c[1] + 1, c[2]>>, <<c[1], c[2] + 1>>, <<c[1] - 1, c[2]>>}

\* the cells a plus can be centred on
CrossCentres == {c \in Filled : WordCount(c) >= 2 /\ PlusAround(c) \subseteq Filled}

\* the grid cells of a piece
GridCellsOf(piece) ==
    {<<piece.correctX + piece.cells[j].relX, piece.correctY + piece.cells[j].relY>> :
        j \in 1..Len(piece.cells)}

C32_OneCrossReserved ==
    Partitioned =>
        \E reserved \in {Range(ret.reserved)} :
            IF args.config.allowSingleCrossPentomino /\ CrossCentres # {}
            THEN /\ Len(ret.reserved) = 5
                 /\ ret.reserved[1] \in CrossCentres
                 /\ reserved = PlusAround(ret.reserved[1])
                 /\ GridCellsOf(ret.partitioned[1]) = reserved
                 /\ \A k \in 2..Len(ret.partitioned) :
                        GridCellsOf(ret.partitioned[k]) \cap reserved = {}
                 /\ args.config.minPieceSize <= 5 =>
                        /\ Cardinality({k \in Pieces : CellsOfPiece(k) = reserved}) = 1
                        /\ \A k \in Pieces :
                               \/ CellsOfPiece(k) = reserved
                               \/ CellsOfPiece(k) \cap reserved = {}
            ELSE /\ reserved = {}
                 /\ \A k \in 1..Len(ret.partitioned) :
                        Len(ret.partitioned[k].cells) <= args.config.maxPieceSize

\* a layout with a centre and another intersection that cannot be one: the
\* plus is reserved and the cells around it are partitioned
C32_Witness ==
    /\ Partitioned
    /\ args.config.allowSingleCrossPentomino
    /\ CrossCentres # {}
    /\ \E c \in Filled : WordCount(c) >= 2 /\ c \notin CrossCentres
    /\ Len(ret.reserved) = 5
    /\ Len(ret.partitioned) >= 3

\* the option is off although a plus could be formed: nothing is reserved
C32_OptionOff ==
    /\ Partitioned
    /\ ~args.config.allowSingleCrossPentomino
    /\ CrossCentres # {}
    /\ ret.reserved = <<>>

-----------------------------------------------------------------------------
(* C33.  The merge ends within 10 passes, and in the pieces it returns a   *)
(* piece with fewer than minPieceSize cells remains only if every          *)
(* 4-adjacent piece P has |P| + |piece| > max(maxPieceSize, 5): no         *)
(* undersized piece is left beside a piece it could have been merged into. *)
AdjacentPieces(j, k) ==
    /\ j # k
    /\ \E a \in CellsOfPiece(j), b \in CellsOfPiece(k) : Adjacent4(a, b)

SizeLimit == IF args.config.maxPieceSize > 5 THEN args.config.maxPieceSize ELSE 5

Undersized(k) == SizeOfPiece(k) < args.config.minPieceSize

C33_NoMergeableUndersizedLeft ==
    Partitioned =>
        /\ ret.passes <= 10
        /\ \A k \in Pieces :
               Undersized(k) =>
                   \A j \in Pieces :
                       AdjacentPieces(j, k) => SizeOfPiece(j) + SizeOfPiece(k) > SizeLimit

\* the merge made more than one pass and an undersized piece is returned, all
\* of its neighbours too large to take it
C33_Witness ==
    /\ Partitioned
    /\ ret.passes >= 2
    /\ Len(ret.pieces) < Len(ret.partitioned)
    /\ \E k \in Pieces : Undersized(k) /\ \E j \in Pieces : AdjacentPieces(j, k)

-----------------------------------------------------------------------------
(* C38.  For every configuration with 1 <= minPieceSize <= maxPieceSize    *)
(* and every list of placements, each piece generatePolyomino returns has  *)
(* at most max(maxPieceSize, 5) cells: chained absorptions within one pass *)
(* never push a target above that bound.                                   *)
C38_PieceSizeAtMostLimit ==
    (Partitioned /\ args.config.minPieceSize <= args.config.maxPieceSize) =>
        \A k \in Pieces : SizeOfPiece(k) <= SizeLimit

\* a piece above the limit
C38_PieceAboveLimit ==
    /\ Partitioned
    /\ args.config.minPieceSize <= args.config.maxPieceSize
    /\ \E k \in Pieces : SizeOfPiece(k) > SizeLimit

-----------------------------------------------------------------------------
(* C34.  In every returned puzzle with at least one placed word the filled *)
(* cells form a single region under 4-adjacency; and every placement other *)
(* than the first of its attempt covers at least one cell that an earlier  *)
(* placement of the attempt had filled.  The second part is stated on the  *)
(* placements of every engine state (so of every attempt, default or       *)
(* retry) and on the returned placements, which keep the commit order.     *)
FilledCellsOf(g) == {c \in DOMAIN g : g[c].grapheme # NoGrapheme}

CoversEarlier(ps) ==
    \A k \in 2..Len(ps) :
        \E j \in 1..(k - 1) : CoveredCells(ps[k]) \cap CoveredCells(ps[j]) # {}

C34_OneRegion ==
    /\ CoversEarlier(placements)
    /\ (Done /\ Len(result.placements) >= 1) =>
           /\ FilledCellsOf(result.grid) # {}
           /\ Connected4(FilledCellsOf(result.grid))
           /\ CoversEarlier(result.placements)

\* three words or more are returned, two of them in the same direction
C34_Witness ==
    /\ Done
    /\ Len(result.placements) >= 3
    /\ \E j, k \in 1..Len(result.placements) :
           j # k /\ result.placements[j].direction = result.placements[k].direction

-----------------------------------------------------------------------------
(* C35.  When the default attempt places at least 60% of the requested     *)
(* words, the result of generatePuzzle does not depend on the seed: a      *)
(* second call with the same clues, width and height and another seed (or  *)
(* none) returns the same placements, grid and dimensions.  Stated on the  *)
(* second call of SpecReseed, whose seed differs from the first call's.    *)
DefaultAttemptSuffices ==
    /\ Len(history) >= 1
    /\ FillAtLeast60(Len(history[1].placements), Len(clues))

C35_SeedIndependent ==
    (run = 2 /\ Done /\ DefaultAttemptSuffices) =>
        /\ result.placements = firstResult.placements
        /\ result.grid = firstResult.grid
        /\ result.gridWidth = firstResult.gridWidth
        /\ result.gridHeight = firstResult.gridHeight

\* the second call returns three crossing words of its default attempt,
\* having drawn random ranks from the other seed
C35_Witness ==
    /\ run = 2
    /\ Done
    /\ DefaultAttemptSuffices
    /\ Len(history) = 1
    /\ Len(result.placements) >= 3
    /\ rng # SeededRandom(IF seed = NoSeed THEN now ELSE seed)

\* below 60% the second call can return another result
C35_SeedDependent ==
    /\ run = 2
    /\ Done
    /\ ~DefaultAttemptSuffices
    /\ result.placements # firstResult.placements

-----------------------------------------------------------------------------
(* C36.  On an empty grid a word becomes the first placed word if and only *)
(* if its grapheme count is at most the grid width: both orientations are  *)
(* tried from (floor((W - len)/2), floor(H/2)), so a word longer than the  *)
(* grid is wide is not placed first even when it would fit vertically; and *)
(* in the default attempt the first placed word is never DOWN.             *)
FirstWordStep ==
    /\ pc = "attempt"
    /\ pc' = "attempt"
    /\ idx' = idx + 1
    /\ Len(placements) = 0

C36_FirstWordFitsWidth ==
    [][FirstWordStep =>
          /\ Len(placements') = 1 <=> Len(order[idx].graphemes) <= width
          /\ Len(placements') = 0 <=> unplaced' = Append(unplaced, order[idx])
          /\ (Len(placements') = 1 /\ ~randomize) =>
                 placements'[1].direction = "ACROSS"]_vars

\* a word that would fit vertically was passed over on the empty grid, and a
\* shorter one became the first word
C36_Witness ==
    /\ pc = "attempt"
    /\ ~randomize
    /\ Len(placements) = 1
    /\ Len(unplaced) >= 1
    /\ width < Len(unplaced[1].graphemes)
    /\ Len(unplaced[1].graphemes) <= height
    /\ placements[1].wordId = 1

\* in a retry the first word can run DOWN
C36_RetryFirstWordDown ==
    /\ randomize
    /\ Len(placements) >= 1
    /\ placements[1].direction = "DOWN"

-----------------------------------------------------------------------------
(* C37.  Every word kept by applySuitabilityFilter that has more than 3    *)
(* graphemes shares at least one grapheme with some other kept word.  As   *)
(* stated this fails: the intersection counts are taken once, over the     *)
(* input, so a kept word's only partners can be words the filter removed.  *)
LongKept == {i \in Kept : Len(args.words[i].graphemes) > 3}

C37_SharesWithKeptWord ==
    Filtered => \A i \in LongKept : \E j \in Kept \ {i} : Share(i, j)

(* C37, as the code has it: every kept word of more than 3 graphemes       *)
(* shares at least one grapheme with some other word of the input.         *)
C37_SharesWithInputWord ==
    Filtered =>
        \A i \in LongKept : \E j \in (1..Len(args.words)) \ {i} : Share(i, j)

\* a kept word of more than 3 graphemes whose partners were all removed
C37_Witness ==
    /\ Filtered
    /\ \E i \in LongKept :
           /\ \E j \in (1..Len(args.words)) \ {i} : Share(i, j)
           /\ \A j \in Kept \ {i} : ~Share(i, j)

-----------------------------------------------------------------------------
(* C39.  In every result of generatePuzzle each input clue appears exactly *)
(* once, as a returned placement or in unplacedWords; stats.placedWords +  *)
(* stats.unplacedWords = stats.requestedWords = the number of input clues, *)
(* and stats.fillRatio is placedWords / requestedWords (0 when nothing was *)
(* requested).  Also when the returned attempt is a retry.                 *)
TimesReturned(clue) ==
    Cardinality({k \in 1..Len(result.placements) : result.placements[k].clueItem = clue})
        + Cardinality({k \in 1..Len(result.unplacedWords) : result.unplacedWords[k] = clue})

C39_EveryClueOnce ==
    Done =>
        /\ \A i \in 1..Len(clues) : TimesReturned(clues[i]) = 1
        /\ Len(result.placements) + Len(result.unplacedWords) = Len(clues)
        /\ result.stats.placedWords = Len(result.placements)
        /\ result.stats.unplacedWords = Len(result.unplacedWords)
        /\ result.stats.requestedWords = Len(clues)
        /\ result.stats.placedWords + result.stats.unplacedWords
               = result.stats.requestedWords
        /\ IF Len(clues) = 0
           THEN result.stats.fillPlaced = 0 /\ result.stats.fillRequested = 1
           ELSE /\ result.stats.fillPlaced = result.stats.placedWords
                /\ result.stats.fillRequested = result.stats.requestedWords

\* the returned attempt is a retry, with words placed and words left over
C39_Witness ==
    /\ Done
    /\ Len(history) >= 2
    /\ bestResult # history[1]
    /\ Len(result.placements) >= 2
    /\ Len(result.unplacedWords) >= 1

\* nothing was requested
C39_NothingRequested ==
    /\ Done
    /\ Len(clues) = 0
    /\ result.stats.requestedWords = 0

-----------------------------------------------------------------------------
(* C40.  Every word reported in unplacedWords has no valid placement left: *)
(* in the final grid of the returned attempt, before the crop, no position *)
(* that aligns one of its graphemes with an equal grapheme of a placed     *)
(* word passes validatePlacement.  Stated where the engine still holds the *)
(* grid of the attempt that generatePuzzle returns.                        *)
HoldsReturnedAttempt ==
    /\ Done
    /\ bestResult = [placements |-> placements, unplacedWords |-> unplaced]

C40_UnplacedHaveNoPlacement ==
    HoldsReturnedAttempt =>
        \A k \in 1..Len(unplaced) : Len(ValidAlignments(unplaced[k])) = 0

\* the word laid at c runs over no cell of a placed word of its direction
CleanFit(clue, c) ==
    LET cells == {<<CellX(c.startX, c.direction, i), CellY(c.startY, c.direction, i)>> :
                     i \in 0..(Len(clue.graphemes) - 1)}
    IN \A k \in 1..Len(placements) :
           placements[k].direction = c.direction =>
               CoveredCells(placements[k]) \cap cells = {}

(* C40, as the code has it: a word goes to unplacedWords exactly when it   *)
(* has no valid placement at the moment the attempt tries it (on the empty *)
(* grid: neither orientation from the centre start; later: no alignment    *)
(* with a placed word); it is not tried again.                             *)
NoPlacementFor(clue) ==
    \/ ~validateGraphemeArray(clue.graphemes)
    \/ /\ Len(placements) = 0
       /\ \A dir \in {"ACROSS", "DOWN"} :
              ~validatePlacement(clue, FirstWordStartX(clue), FirstWordStartY, dir)
    \/ /\ Len(placements) > 0
       /\ Len(ValidAlignments(clue)) = 0

C40_RejectedWhenTried ==
    [][(pc = "attempt" /\ pc' = "attempt" /\ idx' = idx + 1) =>
          /\ unplaced' = Append(unplaced, order[idx]) <=> NoPlacementFor(order[idx])
          /\ unplaced' = unplaced <=> ~NoPlacementFor(order[idx])]_vars

\* a word of unplacedWords that fits the final grid of the returned attempt,
\* across a word that was placed after it was tried
C40_Witness ==
    /\ HoldsReturnedAttempt
    /\ \E k \in 1..Len(unplaced) :
           \E j \in 1..Len(ValidAlignments(unplaced[k])) :
               CleanFit(unplaced[k], ValidAlignments(unplaced[k])[j])

====
